---- MODULE Spec2Model ----
(***************************************************************************)
(* A model of the Jira structure checker:                                  *)
(*   - fetch_jira_issues.py: the date-range partitioning, the token        *)
(*     paginated page fetcher, the thread-pool fan-out / fan-in and main;  *)
(*   - app.py / analyze_data_quality.py: find_date_fields, is_date_string  *)
(*     and has_correct_parent.                                             *)
(* Dates are <<year, month, day>> tuples, a created timestamp is a date    *)
(* followed by an hour; tuples compare lexicographically, as the           *)
(* zero-padded ISO-8601 strings of the program do.                         *)
(***************************************************************************)
EXTENDS Integers, Sequences, FiniteSets, TLC

\* ------------------------------------------------------------------------
\* Bounds of the model
\* ------------------------------------------------------------------------

\* Longest date range, in days past the start date.
MaxSpan == 64

\* Largest number of issues the fake backend holds.
MaxIssues == 3

\* Largest worker count W.
MaxWorkers == 3

\* Most pages followed of a search that never runs out of pages.
MaxPages == 2

\* Page size requested from the search endpoint (max_results, 100 in
\* fetch_all_issues_for_project; scaled down so that several pages occur).
PageSize == 2

\* ------------------------------------------------------------------------
\* Values
\* ------------------------------------------------------------------------

\* Python's None.
None == "None"

\* No nextPageToken in a request or a response.
NoToken == 0

\* The date the model's day numbers count from.
Epoch == <<2024, 1, 1>>

Min(a, b) == IF a <= b THEN a ELSE b

Max(a, b) == IF a >= b THEN a ELSE b

\* Lexicographic order on tuples of integers: the order of Python's str on
\* zero-padded timestamps; the empty tuple is the empty string.
RECURSIVE LexLeq(_, _)
LexLeq(a, b) ==
    IF a = <<>> THEN TRUE
    ELSE IF b = <<>> THEN FALSE
    ELSE IF Head(a) < Head(b) THEN TRUE
    ELSE IF Head(a) > Head(b) THEN FALSE
    ELSE LexLeq(Tail(a), Tail(b))

\* ------------------------------------------------------------------------
\* Calendar: datetime.fromisoformat, timedelta arithmetic, strftime
\* ------------------------------------------------------------------------

IsLeap(y) == (y % 4 = 0 /\ y % 100 # 0) \/ y % 400 = 0

DaysInMonth(y, m) ==
    IF m = 2 THEN (IF IsLeap(y) THEN 29 ELSE 28)
    ELSE IF m \in {4, 6, 9, 11} THEN 30 ELSE 31

DaysInYear(y) == IF IsLeap(y) THEN 366 ELSE 365

RECURSIVE DaysBeforeMonth(_, _)
DaysBeforeMonth(y, m) ==
    IF m <= 1 THEN 0 ELSE DaysBeforeMonth(y, m - 1) + DaysInMonth(y, m - 1)

RECURSIVE DaysBeforeYear(_)
DaysBeforeYear(y) ==
    IF y <= Epoch[1] THEN 0 ELSE DaysBeforeYear(y - 1) + DaysInYear(y - 1)

\* datetime.fromisoformat("YYYY-MM-DD") as a day number (days since Epoch).
fromisoformat(s) == DaysBeforeYear(s[1]) + DaysBeforeMonth(s[1], s[2]) + (s[3] - 1)

RECURSIVE DateOfDay(_, _, _)
DateOfDay(y, m, n) ==
    IF n >= DaysInYear(y) /\ m = 1 THEN DateOfDay(y + 1, 1, n - DaysInYear(y))
    ELSE IF n >= DaysInMonth(y, m) THEN DateOfDay(y, m + 1, n - DaysInMonth(y, m))
    ELSE <<y, m, n + 1>>

\* dt.strftime("%Y-%m-%d") of the day number n.
strftime(n) == DateOfDay(Epoch[1], 1, n)


\* ------------------------------------------------------------------------
\* State
\* ------------------------------------------------------------------------

VARIABLES
    configured,     \* JIRA_URL, JIRA_EMAIL and JIRA_TOKEN are all set
    eagerToken,     \* the server hands out a token with every full page
    unending,       \* the partitions whose search never runs out of pages
    backend,        \* the server's issues, in ORDER BY created ASC
    start_date,     \* main's start_date
    end_date,       \* main's end_date
    num_workers,    \* main's num_workers
    pc,             \* where main / fetch_all_issues_parallel stands
    date_chunks,    \* fetch_all_issues_parallel's date_chunks
    tasks,          \* one record per submitted future
    all_issues,     \* fetch_all_issues_parallel's all_issues
    issues,         \* main's issues: what fetch_all_issues_parallel returned
    file,           \* what save_issues_to_file wrote, None before
    call,           \* the analysis function under call, its arguments and result
    data_file,      \* app.py's DATA_FILE on disk: its content and mtime
    issues_cache,   \* app.py's _issues_cache
    file_mtime,     \* app.py's _file_mtime
    unlinked_cache,           \* app.py's _unlinked_cache
    all_by_type_cache,        \* app.py's _all_by_type_cache
    quality_analysis_cache,   \* app.py's _quality_analysis_cache
    now,            \* the day datetime.now() falls on
    request,        \* the request the web server serves: its locals, its response
    served,         \* per request, the last response since the file was written
    jira,           \* the changelogs the Jira server holds
    traffic         \* the requests to the Jira server, each with its answer

fetchVars == <<configured, eagerToken, unending, backend, start_date, end_date,
               num_workers, pc, date_chunks, tasks, all_issues, issues, file>>

cacheVars == <<issues_cache, file_mtime, unlinked_cache, all_by_type_cache,
               quality_analysis_cache>>

appVars == <<data_file, cacheVars, now, request, served, jira, traffic>>

vars == <<fetchVars, call, appVars>>

\* No analysis function is under call.
NoCall == [fn |-> "none"]

\* DATA_FILE does not exist.
NoFile == [exists |-> FALSE]

\* The web server serves no request.
NoRequest == [route |-> "none", state |-> "idle"]

\* The Jira server was asked nothing.
NoTraffic == [posts |-> <<>>, gets |-> <<>>]

\* The web server is not running.
AppIdle ==
    /\ data_file = NoFile
    /\ issues_cache = [t |-> "none"]
    /\ file_mtime = [t |-> "none"]
    /\ unlinked_cache = <<>>
    /\ all_by_type_cache = <<>>
    /\ quality_analysis_cache = [t |-> "none"]
    /\ now = Epoch
    /\ request = NoRequest
    /\ served = <<>>
    /\ jira = <<>>
    /\ traffic = NoTraffic

\* ------------------------------------------------------------------------
\* fetch_jira_issues.py: pure parts
\* ------------------------------------------------------------------------

\* build_jql: the query is its two date bounds (the project is fixed).
build_jql(start, end) == [start |-> start, end |-> end]

RECURSIVE ChunkLoopGap(_, _, _)
\* A mutant: the next chunk starts two days after the previous one ends.
ChunkLoopGap(current_start, end_dt, days_per_chunk) ==
    IF current_start <= end_dt
    THEN LET current_end == Min(current_start + (days_per_chunk - 1), end_dt)
         IN  <<<<strftime(current_start), strftime(current_end)>>>>
             \o ChunkLoopGap(current_end + 2, end_dt, days_per_chunk)
    ELSE <<>>

RECURSIVE ChunkLoop(_, _, _)
\* The while loop of split_date_range, from current_start on.
ChunkLoop(current_start, end_dt, days_per_chunk) ==
    IF current_start <= end_dt
    THEN LET current_end == Min(current_start + (days_per_chunk - 1), end_dt)
         IN  <<<<strftime(current_start), strftime(current_end)>>>>
             \o ChunkLoop(current_end + 1, end_dt, days_per_chunk)
    ELSE <<>>

\* A mutant: the chunk length is not kept at 30 days or more.
split_date_range_NoFloor(start, end, num_chunks) ==
    LET start_dt == fromisoformat(start)
        end_dt == fromisoformat(end)
        total_days == (end_dt - start_dt) + 1
    IN  IF total_days <= 0 THEN <<<<start, end>>>>
        ELSE IF total_days <= 30 THEN <<<<start, end>>>>
        ELSE ChunkLoop(start_dt, end_dt, total_days \div num_chunks)

split_date_range(start, end, num_chunks) ==
    LET start_dt == fromisoformat(start)
        end_dt == fromisoformat(end)
        total_days == (end_dt - start_dt) + 1
    IN  IF total_days <= 0 THEN <<<<start, end>>>>
        ELSE IF total_days <= 30 THEN <<<<start, end>>>>
        ELSE ChunkLoop(start_dt, end_dt, Max(30, total_days \div num_chunks))

\* x.get("fields", {}).get("created", ""): the sort key of an issue.
CreatedKey(x) ==
    IF "fields" \in DOMAIN x /\ "created" \in DOMAIN x.fields
    THEN x.fields.created ELSE <<>>

\* The place list.sort gives the element at position k: behind every
\* element with a smaller key and every earlier element with an equal key
\* (Python's sort is stable).
SortedPosition(s, k) ==
    1 + Cardinality({ j \in DOMAIN s :
            \/ (LexLeq(CreatedKey(s[j]), CreatedKey(s[k]))
                    /\ CreatedKey(s[j]) # CreatedKey(s[k]))
            \/ (CreatedKey(s[j]) = CreatedKey(s[k]) /\ j < k) })

\* A mutant: the merged list is returned as collected.
SortOmitted(s) == s

\* all_issues.sort(key=...): ascending by created.
SortByCreated(s) ==
    [p \in 1..Len(s) |-> s[CHOOSE k \in DOMAIN s : SortedPosition(s, k) = p]]

\* ------------------------------------------------------------------------
\* The remote search endpoint (a deterministic fake backend)
\* ------------------------------------------------------------------------

\* created >= "start" AND created <= "end", on calendar dates, inclusive.
Matches(x, jql) ==
    LET day == SubSeq(x.fields.created, 1, 3)
    IN  LexLeq(jql.start, day) /\ LexLeq(day, jql.end)

SearchResults(jql) == SelectSeq(backend, LAMBDA x : Matches(x, jql))

\* The response to POST /rest/api/3/search/jql: the token is the offset of
\* the next page.
ServerPage(jql, token) ==
    LET all == SearchResults(jql)
        from == token + 1
        to == Min(token + PageSize, Len(all))
        page == IF from > Len(all) THEN <<>> ELSE SubSeq(all, from, to)
        more == to < Len(all) \/ (eagerToken /\ Len(page) = PageSize)
    IN  [issues |-> page, nextPageToken |-> IF more THEN to ELSE NoToken]


\* ------------------------------------------------------------------------
\* fetch_jira_issues.py: the page loop
\* ------------------------------------------------------------------------

\* fetch_issues_page's payload: nextPageToken is omitted for a falsy token.
RequestToken(next_page_token) ==
    IF next_page_token # NoToken THEN next_page_token ELSE NoToken

\* A mutant: the token of the response is never read.
NextTokenIgnored(page) == NoToken

\* next_page_token = page.get("nextPageToken")
NextToken(page) == page.nextPageToken

\* A mutant: the loop ends after two pages.
PageLoopStep_TwoPages(st, page) ==
    IF page.issues = <<>>
    THEN [st EXCEPT !.finished = TRUE]
    ELSE [next_page_token |-> NextToken(page),
          all_issues |-> st.all_issues \o page.issues,
          finished |-> NextToken(page) = NoToken \/ st.next_page_token # NoToken]

\* One pass of the while loop of fetch_all_issues_for_project, after the
\* page arrived: st is [next_page_token, all_issues, finished].
PageLoopStep(st, page) ==
    IF page.issues = <<>>
    THEN [st EXCEPT !.finished = TRUE]
    ELSE [next_page_token |-> NextToken(page),
          all_issues |-> st.all_issues \o page.issues,
          finished |-> NextToken(page) = NoToken]

RECURSIVE PageLoop(_, _)
PageLoop(st, jql) ==
    IF st.finished THEN st.all_issues
    ELSE PageLoop(PageLoopStep(st, ServerPage(jql, RequestToken(st.next_page_token))), jql)

\* fetch_all_issues_for_project with every request answered 200.
fetch_all_issues_for_project(start, end) ==
    PageLoop([next_page_token |-> NoToken, all_issues |-> <<>>, finished |-> FALSE],
             build_jql(start, end))

\* ------------------------------------------------------------------------
\* Inputs
\* ------------------------------------------------------------------------

Issue(k, c) == [key |-> k, fields |-> [created |-> c]]

\* Created timestamps <<year, month, day, hour>> around the chunk borders
\* of the ranges below, one of them past every range.
CandidateCreated ==
    { strftime(c[1]) \o <<c[2]>> :
        c \in {<<30, 23>>, <<31, 0>>, <<33, 9>>, <<MaxSpan + 2, 0>>} }

\* The server's issues: every list of at most MaxIssues issues in created
\* order (ties allowed), keyed by position.
Backends ==
    { b \in UNION { [1..n -> CandidateCreated] : n \in 0..MaxIssues } :
        \A i \in 1..(Len(b) - 1) : LexLeq(b[i], b[i + 1]) }

StartDates == { strftime(1) }

\* Ranges of 0 (inverted), 30, 31 and MaxSpan + 1 days.
EndDates == { strftime(d) : d \in {0, 30, 31, MaxSpan + 1} }

NewTask ==
    [state |-> "pending", next_page_token |-> NoToken, all_issues |-> <<>>,
     log |-> <<>>, started |-> 0, collected |-> FALSE]

Init ==
    /\ configured \in BOOLEAN
    /\ eagerToken \in BOOLEAN
    /\ unending = {}
    /\ \E b \in Backends : backend = [i \in 1..Len(b) |-> Issue(i, b[i])]
    /\ start_date \in StartDates
    /\ end_date \in EndDates
    /\ num_workers \in 1..MaxWorkers
    /\ pc = "main"
    /\ date_chunks = <<>>
    /\ tasks = <<>>
    /\ all_issues = <<>>
    /\ issues = None
    /\ file = None
    /\ call = NoCall
    /\ AppIdle

\* ------------------------------------------------------------------------
\* Actions
\* ------------------------------------------------------------------------

\* main calls fetch_all_issues_parallel, which splits the range and submits
\* one future per chunk.
Submit ==
    /\ pc = "main"
    /\ date_chunks' = split_date_range(start_date, end_date, num_workers)
    /\ tasks' = [i \in 1..Len(date_chunks') |-> NewTask]
    /\ pc' = "collect"
    /\ UNCHANGED <<configured, eagerToken, unending, backend, start_date, end_date,
                   num_workers, all_issues, issues, file>>

Running == { i \in DOMAIN tasks : tasks[i].state = "running" }

\* A pool thread takes the oldest queued future; at most num_workers run.
StartTask(i) ==
    /\ tasks[i].state = "pending"
    /\ \A j \in 1..(i - 1) : tasks[j].state # "pending"
    /\ Cardinality(Running) < num_workers
    /\ tasks' = [tasks EXCEPT ![i].state = "running",
                              ![i].started = tasks[i].started + 1]
    /\ UNCHANGED <<configured, eagerToken, unending, backend, start_date, end_date,
                   num_workers, pc, date_chunks, all_issues, issues, file>>

ChunkJql(i) == build_jql(date_chunks[i][1], date_chunks[i][2])

\* The response of a search that never runs out of pages: one more issue,
\* created on the first day of the range, and a token.
UnendingPage(jql, token) ==
    [issues |-> <<Issue(MaxIssues + 1 + token, jql.start \o <<token>>)>>,
     nextPageToken |-> token + 1]

\* The response to the request of partition i.
Response(i, token) ==
    IF i \in unending THEN UnendingPage(ChunkJql(i), token)
    ELSE ServerPage(ChunkJql(i), token)

\* One pass of the page loop whose request is answered 200.
FetchPage(i) ==
    /\ tasks[i].state = "running"
    /\ configured
    /\ i \in unending => Len(tasks[i].log) < MaxPages
    /\ LET t == tasks[i]
           sent == RequestToken(t.next_page_token)
           page == Response(i, sent)
           st == PageLoopStep([next_page_token |-> t.next_page_token,
                               all_issues |-> t.all_issues,
                               finished |-> FALSE], page)
       IN  tasks' = [tasks EXCEPT ![i] =
                [t EXCEPT !.next_page_token = st.next_page_token,
                          !.all_issues = st.all_issues,
                          !.log = Append(t.log, [token |-> sent, status |-> "200",
                                                 issues |-> page.issues,
                                                 nextPageToken |-> page.nextPageToken]),
                          !.state = IF st.finished THEN "done" ELSE "running"]]
    /\ UNCHANGED <<configured, eagerToken, unending, backend, start_date, end_date,
                   num_workers, pc, date_chunks, all_issues, issues, file>>

\* A page request that is answered non-200 (RuntimeError) or whose
\* requests.post raises: the exception leaves fetch_all_issues_for_project
\* and fetch_issues_for_date_range re-raises it into the future.
FetchPageFails(i) ==
    /\ tasks[i].state = "running"
    /\ configured
    /\ i \in unending => Len(tasks[i].log) < MaxPages
    /\ \E status \in {"non200", "transport"} :
         tasks' = [tasks EXCEPT ![i] =
                [tasks[i] EXCEPT
                    !.log = Append(tasks[i].log,
                                   [token |-> RequestToken(tasks[i].next_page_token),
                                    status |-> status, issues |-> <<>>,
                                    nextPageToken |-> NoToken]),
                    !.state = "failed"]]
    /\ UNCHANGED <<configured, eagerToken, unending, backend, start_date, end_date,
                   num_workers, pc, date_chunks, all_issues, issues, file>>

\* fetch_issues_page raises ValueError before any request is built.
ConfigError(i) ==
    /\ tasks[i].state = "running"
    /\ ~configured
    /\ tasks' = [tasks EXCEPT ![i].state = "failed"]
    /\ UNCHANGED <<configured, eagerToken, unending, backend, start_date, end_date,
                   num_workers, pc, date_chunks, all_issues, issues, file>>

\* A mutant: the partial pages of a failed partition are merged too.
CollectFutureKeepsPartial(merged, t) ==
    [all_issues |-> merged \o t.all_issues, pc |-> "collect"]

\* A mutant: no except clause, the future's exception leaves the coordinator.
CollectFutureReraises(merged, t) ==
    IF t.state = "done"
    THEN [all_issues |-> merged \o t.all_issues, pc |-> "collect"]
    ELSE [all_issues |-> merged, pc |-> "raised"]

\* What the coordinator does with a future as_completed hands it: extend
\* all_issues by its result, or print its exception and go on.
CollectFuture(merged, t) ==
    IF t.state = "done"
    THEN [all_issues |-> merged \o t.all_issues, pc |-> "collect"]
    ELSE [all_issues |-> merged, pc |-> "collect"]

Collect(i) ==
    /\ pc = "collect"
    /\ tasks[i].state \in {"done", "failed"}
    /\ ~tasks[i].collected
    /\ all_issues' = CollectFuture(all_issues, tasks[i]).all_issues
    /\ pc' = CollectFuture(all_issues, tasks[i]).pc
    /\ tasks' = [tasks EXCEPT ![i].collected = TRUE]
    /\ UNCHANGED <<configured, eagerToken, unending, backend, start_date, end_date,
                   num_workers, date_chunks, issues, file>>

\* A mutant: the coordinator goes on once every future has been started.
FanInDone_AllStarted == \A i \in DOMAIN tasks : tasks[i].state # "pending"

\* as_completed is exhausted and the executor has shut down.
FanInDone == \A i \in DOMAIN tasks : tasks[i].collected

\* The sort and the return to main.
SortAndReturn ==
    /\ pc = "collect"
    /\ FanInDone
    /\ all_issues' = SortByCreated(all_issues)
    /\ issues' = all_issues'
    /\ pc' = "returned"
    /\ UNCHANGED <<configured, eagerToken, unending, backend, start_date, end_date,
                   num_workers, date_chunks, tasks, file>>

\* main: save_issues_to_file(issues, OUTPUT_FILE).
Save ==
    /\ pc = "returned"
    /\ file' = issues
    /\ pc' = "saved"
    /\ UNCHANGED <<configured, eagerToken, unending, backend, start_date, end_date,
                   num_workers, date_chunks, tasks, all_issues, issues>>

Next ==
    \/ Submit /\ UNCHANGED <<call, appVars>>
    \/ \E i \in DOMAIN tasks : StartTask(i) /\ UNCHANGED <<call, appVars>>
    \/ \E i \in DOMAIN tasks : FetchPage(i) /\ UNCHANGED <<call, appVars>>
    \/ \E i \in DOMAIN tasks : FetchPageFails(i) /\ UNCHANGED <<call, appVars>>
    \/ \E i \in DOMAIN tasks : ConfigError(i) /\ UNCHANGED <<call, appVars>>
    \/ \E i \in DOMAIN tasks : Collect(i) /\ UNCHANGED <<call, appVars>>
    \/ SortAndReturn /\ UNCHANGED <<call, appVars>>
    \/ Save /\ UNCHANGED <<call, appVars>>

Spec == Init /\ [][Next]_vars

\* Some searches never run out of pages.
InitUnending ==
    /\ configured \in BOOLEAN
    /\ eagerToken \in BOOLEAN
    /\ unending \in {{}, {1}, {2}}
    /\ \E b \in { c \in Backends : /\ Len(c) = MaxIssues
                                    /\ \A i \in 1..(Len(c) - 1) : c[i] # c[i + 1] } :
           backend = [i \in 1..Len(b) |-> Issue(i, b[i])]
    /\ start_date \in StartDates
    /\ end_date \in { strftime(d) : d \in {30, MaxSpan + 1} }
    /\ num_workers \in 1..MaxWorkers
    /\ pc = "main"
    /\ date_chunks = <<>>
    /\ tasks = <<>>
    /\ all_issues = <<>>
    /\ issues = None
    /\ file = None
    /\ call = NoCall
    /\ AppIdle

\* What the pool thread of future i does.
Worker(i) ==
    /\ i \in DOMAIN tasks
    /\ StartTask(i) \/ FetchPage(i) \/ FetchPageFails(i) \/ ConfigError(i)
    /\ UNCHANGED <<call, appVars>>

\* What the main thread does.
Coordinator ==
    /\ Submit \/ (\E i \in DOMAIN tasks : Collect(i)) \/ SortAndReturn \/ Save
    /\ UNCHANGED <<call, appVars>>

\* Every thread that can take a step takes one, and every request comes
\* back, with a response or an exception.
SpecFair ==
    /\ InitUnending
    /\ [][Next]_vars
    /\ WF_vars(Coordinator)
    /\ \A i \in 1..(MaxWorkers + 1) : WF_vars(Worker(i))


\* ------------------------------------------------------------------------
\* Python values of a JSON issue record
\* ------------------------------------------------------------------------

\* A str is a tuple of one-character strings. The fields dict of an issue
\* is a sequence of [k, v] items in encounter order, a key being a tuple of
\* one-character strings behind, for a custom field, the token
\* "customfield_"; a dict inside it (issuetype, status, parent, creator) is
\* a record, and the names of issue types, statuses and people are strings.
PyNone == [t |-> "none"]

\* The fields dict with these items.
PyDict(items) == [t |-> "dict", items |-> items]

\* isinstance(v, dict)
IsDict(v) == "t" \notin DOMAIN v \/ v.t = "dict"

PyStr(s) == [t |-> "str", s |-> s]

PyInt(n) == [t |-> "int", v |-> n]

\* bool(v)
Truthy(v) ==
    CASE v.t = "none" -> FALSE
      [] v.t = "str" -> v.s # <<>>
      [] v.t = "int" -> v.v # 0
      [] OTHER -> TRUE

\* not v, for a value or a dict inside the fields
Falsy(v) == IF "t" \in DOMAIN v THEN ~Truthy(v) ELSE DOMAIN v = {}

Digits == <<"0", "1", "2", "3", "4", "5", "6", "7", "8", "9">>

IsDigit(c) == \E n \in DOMAIN Digits : Digits[n] = c

DigitValue(c) == (CHOOSE n \in DOMAIN Digits : Digits[n] = c) - 1

RECURSIVE DigitsValue(_)
DigitsValue(s) ==
    IF s = <<>> THEN 0
    ELSE DigitsValue(SubSeq(s, 1, Len(s) - 1)) * 10 + DigitValue(s[Len(s)])

AllDigits(s) == s # <<>> /\ \A k \in DOMAIN s : IsDigit(s[k])

\* s.replace(sub, ""), sub not empty.
RECURSIVE RemoveAll(_, _)
RemoveAll(s, sub) ==
    IF Len(s) < Len(sub) THEN s
    ELSE IF SubSeq(s, 1, Len(sub)) = sub
         THEN RemoveAll(SubSeq(s, Len(sub) + 1, Len(s)), sub)
         ELSE <<Head(s)>> \o RemoveAll(Tail(s), sub)

\* c in s
Contains(s, c) == \E k \in DOMAIN s : s[k] = c

FirstIndex(s, c) == CHOOSE k \in DOMAIN s : s[k] = c /\ \A j \in 1..(k - 1) : s[j] # c

\* s.split(c)
RECURSIVE Split(_, _)
Split(s, c) ==
    IF ~Contains(s, c) THEN <<s>>
    ELSE <<SubSeq(s, 1, FirstIndex(s, c) - 1)>>
         \o Split(SubSeq(s, FirstIndex(s, c) + 1, Len(s)), c)

\* c.join(parts)
RECURSIVE Join(_, _)
Join(parts, c) ==
    IF parts = <<>> THEN <<>>
    ELSE IF Len(parts) = 1 THEN parts[1]
    ELSE parts[1] \o <<c>> \o Join(Tail(parts), c)

\* datetime.fromisoformat accepts the 10 characters YYYY-MM-DD.
IsoDateOk(s) ==
    /\ Len(s) = 10
    /\ \A k \in {1, 2, 3, 4, 6, 7, 9, 10} : IsDigit(s[k])
    /\ s[5] = "-" /\ s[8] = "-"
    /\ LET y == DigitsValue(SubSeq(s, 1, 4))
           m == DigitsValue(SubSeq(s, 6, 7))
           d == DigitsValue(SubSeq(s, 9, 10))
       IN  y >= 1 /\ m \in 1..12 /\ d >= 1 /\ d <= DaysInMonth(y, m)

\* datetime.fromisoformat accepts the 19 characters YYYY-MM-DD?HH:MM:SS.
IsoDateTimeOk(s) ==
    /\ Len(s) = 19
    /\ IsoDateOk(SubSeq(s, 1, 10))
    /\ \A k \in {12, 13, 15, 16, 18, 19} : IsDigit(s[k])
    /\ s[14] = ":" /\ s[17] = ":"
    /\ DigitsValue(SubSeq(s, 12, 13)) <= 23
    /\ DigitsValue(SubSeq(s, 15, 16)) <= 59
    /\ DigitsValue(SubSeq(s, 18, 19)) <= 59

\* datetime.fromisoformat(s) does not raise, for the lengths is_date_string
\* passes it.
ParsesIso(s) == IsoDateOk(s) \/ IsoDateTimeOk(s)

\* cleaned.split("+")[0] if "+" in cleaned
BeforePlus(cleaned) ==
    IF Contains(cleaned, "+") THEN Split(cleaned, "+")[1] ELSE cleaned

\* "-".join(parts[:3]) if the text is longer than 10 and has over 3 parts
FirstThreeParts(cleaned) ==
    IF Contains(cleaned, "-") /\ Len(cleaned) > 10 /\ Len(Split(cleaned, "-")) > 3
    THEN Join(SubSeq(Split(cleaned, "-"), 1, 3), "-")
    ELSE cleaned

\* The cleaned text is long enough and one of the two attempts parses it.
CleanedParses(cleaned) ==
    /\ Len(cleaned) >= 10
    /\ \/ ParsesIso(IF Len(cleaned) >= 19 THEN SubSeq(cleaned, 1, 19)
                     ELSE SubSeq(cleaned, 1, 10))
       \/ ParsesIso(SubSeq(cleaned, 1, 10))

is_date_string(value) ==
    IF value.t # "str" \/ value.s = <<>> THEN FALSE
    ELSE CleanedParses(FirstThreeParts(BeforePlus(
            RemoveAll(RemoveAll(value.s, <<"Z">>), <<"+", "0", "0", ":", "0", "0">>))))

\* ------------------------------------------------------------------------
\* app.py / analyze_data_quality.py: find_date_fields
\* ------------------------------------------------------------------------

\* key in d
DictHas(d, key) == \E k \in DOMAIN d : d[k].k = key

\* d[key]
DictAt(d, key) == d[CHOOSE k \in DOMAIN d : d[k].k = key].v

\* key.startswith("customfield_")
IsCustomKey(key) == key # <<>> /\ Head(key) = "customfield_"

\* key.replace("customfield_", "")
KeySuffix(key) == SelectSeq(key, LAMBDA c : c # "customfield_")

\* int(s) does not raise ValueError (s without sign, blanks or underscores).
IntParses(s) == AllDigits(s)

\* The date-like custom fields, in encounter order.
DateFields(fields) ==
    SelectSeq(fields, LAMBDA f : IsCustomKey(f.k) /\ f.v # PyNone /\ is_date_string(f.v))

\* The place sorted(date_fields, key=int(...)) gives the field at k (stable).
IdPosition(fs, k) ==
    1 + Cardinality({ j \in DOMAIN fs :
            \/ DigitsValue(KeySuffix(fs[j].k)) < DigitsValue(KeySuffix(fs[k].k))
            \/ (DigitsValue(KeySuffix(fs[j].k)) = DigitsValue(KeySuffix(fs[k].k)) /\ j < k) })

\* A mutant: the date fields stay in encounter order.
SortedByIdOmitted(fs) == fs

SortedById(fs) ==
    [p \in 1..Len(fs) |-> fs[CHOOSE k \in DOMAIN fs : IdPosition(fs, k) = p]]

\* What the duedate step leaves in end_date.
DueDate(fields) ==
    IF DictHas(fields, <<"duedate">>) /\ Truthy(DictAt(fields, <<"duedate">>))
    THEN DictAt(fields, <<"duedate">>) ELSE PyNone

\* The values of the first two of the fields.
FirstTwo(fs) == <<fs[1].v, fs[2].v>>

\* A mutant: a single date-like field is taken for the start.
StartAndEnd_SingleIsStart(date_fields, fields) ==
    IF Len(date_fields) >= 2
    THEN IF \A k \in DOMAIN date_fields : IntParses(KeySuffix(date_fields[k].k))
         THEN FirstTwo(SortedById(date_fields))
         ELSE FirstTwo(date_fields)
    ELSE IF Len(date_fields) = 1 THEN <<date_fields[1].v, DueDate(fields)>>
    ELSE <<PyNone, DueDate(fields)>>

\* A mutant: two date-like fields are not yet enough to infer a start.
StartAndEnd_MoreThanTwo(date_fields, fields) ==
    IF Len(date_fields) > 2 THEN FirstTwo(date_fields)
    ELSE IF Len(date_fields) = 1 THEN <<PyNone, date_fields[1].v>>
    ELSE <<PyNone, DueDate(fields)>>

\* What find_date_fields makes of the date-like custom fields it found in
\* fields: <<start_date, end_date>>.
StartAndEnd(date_fields, fields) ==
    IF Len(date_fields) >= 2
    THEN IF \A k \in DOMAIN date_fields : IntParses(KeySuffix(date_fields[k].k))
         THEN FirstTwo(SortedById(date_fields))
         ELSE FirstTwo(date_fields)
    ELSE IF Len(date_fields) = 1 THEN <<PyNone, date_fields[1].v>>
    ELSE <<PyNone, DueDate(fields)>>

\* The items of issue.get("fields", {}).
ItemsOf(issue) == IF "fields" \in DOMAIN issue THEN issue.fields.items ELSE <<>>

\* fields.items() raises AttributeError: "fields" holds no dict.
find_date_fields_raises(issue) ==
    "fields" \in DOMAIN issue /\ ~IsDict(issue.fields)

\* find_date_fields(issue): <<start_date, end_date>>.
find_date_fields(issue) == StartAndEnd(DateFields(ItemsOf(issue)), ItemsOf(issue))

\* ------------------------------------------------------------------------
\* app.py: has_correct_parent
\* ------------------------------------------------------------------------

\* {}
EmptyDict == [x \in {} |-> x]

\* d.get(key, default), d a record
Get(d, key, default) == IF key \in DOMAIN d THEN d[key] ELSE default

\* A mutant: a Sub-task is linked only under a Story.
has_correct_parent_StoryOnly(issue_type, parent) ==
    IF Falsy(parent) THEN FALSE
    ELSE LET parent_type ==
                Get(Get(Get(parent, "fields", EmptyDict), "issuetype", EmptyDict), "name", "")
         IN  IF issue_type = "Epic" THEN parent_type = "Initiative"
             ELSE IF issue_type \in {"Story", "Task", "Bug", "Spike", "Documentation"}
                  THEN parent_type = "Epic"
             ELSE IF issue_type = "Sub-task" THEN parent_type = "Story"
             ELSE FALSE

has_correct_parent(issue_type, parent) ==
    IF Falsy(parent) THEN FALSE
    ELSE LET parent_type ==
                Get(Get(Get(parent, "fields", EmptyDict), "issuetype", EmptyDict), "name", "")
         IN  IF issue_type = "Epic" THEN parent_type = "Initiative"
             ELSE IF issue_type \in {"Story", "Task", "Bug", "Spike", "Documentation"}
                  THEN parent_type = "Epic"
             ELSE IF issue_type = "Sub-task" THEN parent_type \in {"Story", "Task"}
             ELSE FALSE

\* ------------------------------------------------------------------------
\* Text: order, lower, strip, and the spelling of the names
\* ------------------------------------------------------------------------

UpperLetters ==
    <<"A", "B", "C", "D", "E", "F", "G", "H", "I", "J", "K", "L", "M",
      "N", "O", "P", "Q", "R", "S", "T", "U", "V", "W", "X", "Y", "Z">>

LowerLetters ==
    <<"a", "b", "c", "d", "e", "f", "g", "h", "i", "j", "k", "l", "m",
      "n", "o", "p", "q", "r", "s", "t", "u", "v", "w", "x", "y", "z">>

\* The characters of the texts below, in code point order.
Ascii ==
    <<" ", "!", "(", ")", "+", "-", ".">> \o Digits \o <<":">>
    \o UpperLetters \o LowerLetters

\* The place of ord(c) among the code points of Ascii.
Ord(c) == CHOOSE n \in DOMAIN Ascii : Ascii[n] = c

\* a < b on str
StrLess(a, b) ==
    /\ a # b
    /\ LexLeq([k \in 1..Len(a) |-> Ord(a[k])], [k \in 1..Len(b) |-> Ord(b[k])])

\* s.lower()
Lower(s) ==
    [k \in 1..Len(s) |->
        IF \E n \in DOMAIN UpperLetters : UpperLetters[n] = s[k]
        THEN LowerLetters[CHOOSE n \in DOMAIN UpperLetters : UpperLetters[n] = s[k]]
        ELSE s[k]]

\* s.strip()
RECURSIVE Strip(_)
Strip(s) ==
    IF s = <<>> THEN s
    ELSE IF Head(s) = " " THEN Strip(Tail(s))
    ELSE IF s[Len(s)] = " " THEN Strip(SubSeq(s, 1, Len(s) - 1))
    ELSE s

\* The characters of a name (an issue type or a status).
Chars(name) ==
    CASE name = "" -> <<>>
      [] name = "Epic" -> <<"E", "p", "i", "c">>
      [] name = "epic" -> <<"e", "p", "i", "c">>
      [] name = "Story" -> <<"S", "t", "o", "r", "y">>
      [] name = "Task" -> <<"T", "a", "s", "k">>
      [] name = "Sub-task" -> <<"S", "u", "b", "-", "t", "a", "s", "k">>
      [] name = "Initiative" -> <<"I", "n", "i", "t", "i", "a", "t", "i", "v", "e">>
      [] name = "Improvement" -> <<"I", "m", "p", "r", "o", "v", "e", "m", "e", "n", "t">>
      [] name = "Unknown" -> <<"U", "n", "k", "n", "o", "w", "n">>
      [] name = "Open" -> <<"O", "p", "e", "n">>
      [] name = " OPEN " -> <<" ", "O", "P", "E", "N", " ">>
      [] name = "OPEN (Waiting)" ->
            <<"O", "P", "E", "N", " ", "(", "W", "a", "i", "t", "i", "n", "g", ")">>
      [] name = "In Progress" ->
            <<"I", "n", " ", "P", "r", "o", "g", "r", "e", "s", "s">>
      [] name = "Done" -> <<"D", "o", "n", "e">>
      [] name = "Waiting for release" ->
            <<"W", "a", "i", "t", "i", "n", "g", " ", "f", "o", "r", " ",
              "r", "e", "l", "e", "a", "s", "e">>
      [] name = "waiting for Release " ->
            <<"w", "a", "i", "t", "i", "n", "g", " ", "f", "o", "r", " ",
              "R", "e", "l", "e", "a", "s", "e", " ">>
      [] name = "status" -> <<"s", "t", "a", "t", "u", "s">>
      [] name = "assignee" -> <<"a", "s", "s", "i", "g", "n", "e", "e">>

\* ------------------------------------------------------------------------
\* app.py: reading an issue record
\* ------------------------------------------------------------------------

\* issue.get("fields", {})
Fields(issue) == IF "fields" \in DOMAIN issue THEN issue.fields ELSE PyDict(<<>>)

\* fields.get(name, default), fields a dict
Field(fields, name, default) ==
    IF DictHas(fields.items, <<name>>) THEN DictAt(fields.items, <<name>>) ELSE default

\* issue.get("key", "")
Key(issue) == IF "key" \in DOMAIN issue THEN issue.key ELSE ""

\* fields.get(field, {}).get("name", default)
NameOf(issue, field, default) ==
    Get(Field(Fields(issue), field, EmptyDict), "name", default)

\* ... raises AttributeError: fields or fields[field] is no dict.
NameOfRaises(issue, field) ==
    \/ ~IsDict(Fields(issue))
    \/ ~IsDict(Field(Fields(issue), field, EmptyDict))

\* fields.get("parent")
ParentOf(issue) == Field(Fields(issue), "parent", PyNone)

\* created_raw.split("T") raises AttributeError: created is no str.
CreatedRaises(issue) ==
    LET created_raw == Field(Fields(issue), "created", PyStr(<<>>))
    IN  IsDict(created_raw) \/ created_raw.t # "str"

\* (created_raw.split("T")[0] if created_raw else "") raises.
CreatedIfAnyRaises(issue) ==
    ~Falsy(Field(Fields(issue), "created", PyStr(<<>>))) /\ CreatedRaises(issue)

\* created_raw.split("T")[0] if created_raw else ""
CreatedDateIfAny(issue) ==
    LET created_raw == Field(Fields(issue), "created", PyStr(<<>>))
    IN  IF Falsy(created_raw) THEN PyStr(<<>>) ELSE PyStr(Split(created_raw.s, "T")[1])

\* created_raw.split("T")[0]
CreatedDate(issue) ==
    PyStr(Split(Field(Fields(issue), "created", PyStr(<<>>)).s, "T")[1])

\* creator.get(...) raises AttributeError: creator is no dict.
CreatorRaises(issue) == ~IsDict(Field(Fields(issue), "creator", EmptyDict))

\* creator.get("displayName", creator.get("emailAddress", "Unknown"))
PersonName(person) ==
    Get(person, "displayName", Get(person, "emailAddress", "Unknown"))

CreatorName(issue) == PersonName(Field(Fields(issue), "creator", EmptyDict))

\* reporter.get(...) raises AttributeError: reporter is neither falsy nor a dict.
ReporterRaises(issue) ==
    LET reporter == Field(Fields(issue), "reporter", EmptyDict)
    IN  ~Falsy(reporter) /\ ~IsDict(reporter)

ReporterName(issue) ==
    LET reporter == Field(Fields(issue), "reporter", EmptyDict)
    IN  IF Falsy(reporter) THEN "Unknown" ELSE PersonName(reporter)

\* The place result.sort(key=created_date, reverse=True) gives entry k:
\* behind the later dates and, the sort being stable, behind the earlier
\* entries of the same date.
NewestFirstPosition(r, k) ==
    1 + Cardinality({ j \in DOMAIN r :
            \/ StrLess(r[k].created_date.s, r[j].created_date.s)
            \/ (r[j].created_date = r[k].created_date /\ j < k) })

NewestFirst(r) ==
    [p \in 1..Len(r) |-> r[CHOOSE k \in DOMAIN r : NewestFirstPosition(r, k) = p]]

\* The list a loop over the issues appends to: entries maps the positions
\* of the issues the loop keeps to what it appends for them.
Collected(entries) ==
    [p \in 1..Cardinality(DOMAIN entries) |->
        entries[CHOOSE k \in DOMAIN entries :
                    Cardinality({ j \in DOMAIN entries : j < k }) = p - 1]]

\* ------------------------------------------------------------------------
\* app.py: the parent hierarchy
\* ------------------------------------------------------------------------

get_expected_parent_type(issue_type) ==
    IF issue_type = "Epic" THEN "Initiative"
    ELSE IF issue_type \in {"Story", "Task", "Bug", "Spike", "Documentation"} THEN "Epic"
    ELSE IF issue_type = "Sub-task" THEN "Story/Task"
    ELSE None

\* has_correct_parent raises AttributeError: the parent, its fields or its
\* issuetype is neither falsy (the parent) nor a dict.
has_correct_parent_raises(issue_type, parent) ==
    /\ ~Falsy(parent)
    /\ \/ ~IsDict(parent)
       \/ ~IsDict(Get(parent, "fields", EmptyDict))
       \/ ~IsDict(Get(Get(parent, "fields", EmptyDict), "issuetype", EmptyDict))

count_issues_by_type_raises(iss) ==
    \E k \in DOMAIN iss :
        \/ NameOfRaises(iss[k], "issuetype")
        \/ /\ get_expected_parent_type(NameOf(iss[k], "issuetype", "Unknown")) # None
           /\ has_correct_parent_raises(NameOf(iss[k], "issuetype", "Unknown"),
                                        ParentOf(iss[k]))

\* count_issues_by_type(issues): the dict, a function of the type names.
count_issues_by_type(iss) ==
    LET ty(k) == NameOf(iss[k], "issuetype", "Unknown")
    IN  [t \in { ty(k) : k \in DOMAIN iss } |->
            [total |-> Cardinality({ k \in DOMAIN iss : ty(k) = t }),
             unlinked |->
                IF get_expected_parent_type(t) # None
                THEN Cardinality({ k \in DOMAIN iss :
                        ty(k) = t /\ ~has_correct_parent(t, ParentOf(iss[k])) })
                ELSE 0,
             expected_parent |-> get_expected_parent_type(t)]]

filter_issues_by_type_raises(iss, desired_type, unlinked_only) ==
    \E k \in DOMAIN iss :
        \/ NameOfRaises(iss[k], "issuetype")
        \/ /\ NameOf(iss[k], "issuetype", None) = desired_type
           /\ IF unlinked_only
              THEN \/ has_correct_parent_raises(desired_type, ParentOf(iss[k]))
                   \/ /\ ~has_correct_parent(desired_type, ParentOf(iss[k]))
                      /\ CreatedRaises(iss[k])
              ELSE CreatedRaises(iss[k])

\* filter_issues_by_type: the list of (key, summary, created_date).
filter_issues_by_type(iss, desired_type, unlinked_only) ==
    LET keep(issue) ==
            /\ NameOf(issue, "issuetype", None) = desired_type
            /\ unlinked_only => ~has_correct_parent(desired_type, ParentOf(issue))
        entry(issue) ==
            <<Key(issue), Field(Fields(issue), "summary", PyStr(<<>>)), CreatedDate(issue)>>
    IN  Collected([k \in { j \in DOMAIN iss : keep(iss[j]) } |-> entry(iss[k])])

\* get_all_issues_by_type, past the cache lookup.
get_all_issues_by_type_raises(iss, issue_type) ==
    \E k \in DOMAIN iss :
        \/ NameOfRaises(iss[k], "issuetype")
        \/ /\ NameOf(iss[k], "issuetype", None) = issue_type
           /\ \/ CreatedRaises(iss[k])
              \/ CreatorRaises(iss[k])
              \/ has_correct_parent_raises(issue_type, ParentOf(iss[k]))

get_all_issues_by_type(iss, issue_type) ==
    LET keep(issue) == NameOf(issue, "issuetype", None) = issue_type
        entry(issue) ==
            [key |-> Key(issue),
             summary |-> Field(Fields(issue), "summary", PyStr(<<>>)),
             created_date |-> CreatedDate(issue),
             creator_name |-> CreatorName(issue),
             has_parent |-> has_correct_parent(issue_type, ParentOf(issue))]
    IN  NewestFirst(Collected([k \in { j \in DOMAIN iss : keep(iss[j]) } |-> entry(iss[k])]))

\* get_unlinked_issues, past the cache lookup.
get_unlinked_issues_raises(iss, issue_type) ==
    /\ get_expected_parent_type(issue_type) # None
    /\ \E k \in DOMAIN iss :
        \/ NameOfRaises(iss[k], "issuetype")
        \/ /\ NameOf(iss[k], "issuetype", None) = issue_type
           /\ \/ has_correct_parent_raises(issue_type, ParentOf(iss[k]))
              \/ /\ ~has_correct_parent(issue_type, ParentOf(iss[k]))
                 /\ \/ CreatedRaises(iss[k])
                    \/ CreatorRaises(iss[k])
                    \/ ReporterRaises(iss[k])

get_unlinked_issues(iss, issue_type) ==
    LET keep(issue) ==
            /\ NameOf(issue, "issuetype", None) = issue_type
            /\ ~has_correct_parent(issue_type, ParentOf(issue))
        entry(issue) ==
            [key |-> Key(issue),
             summary |-> Field(Fields(issue), "summary", PyStr(<<>>)),
             created_date |-> CreatedDate(issue),
             creator_name |-> CreatorName(issue),
             reporter_name |-> ReporterName(issue)]
    IN  IF get_expected_parent_type(issue_type) = None THEN <<>>
        ELSE NewestFirst(Collected([k \in { j \in DOMAIN iss : keep(iss[j]) } |-> entry(iss[k])]))

\* ------------------------------------------------------------------------
\* app.py / analyze_data_quality.py: the quality checks
\* ------------------------------------------------------------------------

\* s.replace("Z", "+00:00")
RECURSIVE ReplaceZ(_)
ReplaceZ(s) ==
    IF s = <<>> THEN s
    ELSE (IF Head(s) = "Z" THEN <<"+", "0", "0", ":", "0", "0">> ELSE <<Head(s)>>)
         \o ReplaceZ(Tail(s))

\* A fraction of a second behind the seconds.
FractionOk(r) == Len(r) >= 2 /\ r[1] \in {".", ","} /\ AllDigits(Tail(r))

\* A UTC offset: +HH, +HHMM or +HH:MM.
OffsetOk(r) ==
    /\ Len(r) \in {3, 5, 6}
    /\ r[1] \in {"+", "-"}
    /\ AllDigits(SubSeq(r, 2, 3))
    /\ DigitsValue(SubSeq(r, 2, 3)) <= 23
    /\ Len(r) = 5 => (AllDigits(SubSeq(r, 4, 5)) /\ DigitsValue(SubSeq(r, 4, 5)) <= 59)
    /\ Len(r) = 6 => (r[4] = ":" /\ AllDigits(SubSeq(r, 5, 6))
                        /\ DigitsValue(SubSeq(r, 5, 6)) <= 59)

\* The place where the UTC offset of a datetime text begins, 0 without.
OffsetAt(s) ==
    IF \E k \in 20..Len(s) : s[k] \in {"+", "-"}
    THEN CHOOSE k \in 20..Len(s) :
            s[k] \in {"+", "-"} /\ \A j \in 20..(k - 1) : s[j] \notin {"+", "-"}
    ELSE 0

\* datetime.fromisoformat accepts YYYY-MM-DD?HH:MM:SS[.f][+HH[[:]MM]].
FullIsoOk(s) ==
    /\ Len(s) >= 19
    /\ IsoDateTimeOk(SubSeq(s, 1, 19))
    /\ LET last == IF OffsetAt(s) = 0 THEN Len(s) ELSE OffsetAt(s) - 1
       IN  /\ last = 19 \/ FractionOk(SubSeq(s, 20, last))
           /\ OffsetAt(s) # 0 => OffsetOk(SubSeq(s, OffsetAt(s), Len(s)))

\* A datetime: its date and whether it carries a UTC offset.
PyDate(d, aware) == [t |-> "datetime", d |-> d, aware |-> aware]

\* The date <<y, m, d>> that the text YYYY-MM-DD names.
DateOfText(s) ==
    <<DigitsValue(SubSeq(s, 1, 4)), DigitsValue(SubSeq(s, 6, 7)),
      DigitsValue(SubSeq(s, 9, 10))>>

\* The try block of parse_date, and of checks 3, 4.7 and 4.8 of
\* analyze_data_quality: the datetime, None for a ValueError.
ParsedDate(text) ==
    IF Contains(text, "T")
    THEN IF FullIsoOk(ReplaceZ(text))
         THEN PyDate(DateOfText(text), OffsetAt(ReplaceZ(text)) # 0)
         ELSE PyNone
    ELSE IF IsoDateOk(SubSeq(text, 1, Min(10, Len(text))))
         THEN PyDate(DateOfText(text), FALSE)
         ELSE PyNone

parse_date(date_str) ==
    IF Falsy(date_str) THEN PyNone ELSE ParsedDate(date_str.s)

\* a.date() < b, on dates
DateLess(a, b) == a # b /\ LexLeq(a, b)

\* A datetime that was parsed, and lies before today.
IsPast(dt, today) == dt # PyNone /\ DateLess(dt.d, today)

\* if not start_date: continue; start_dt = parse_date(start_date);
\* if start_dt and start_dt.date() < today
StartIsPast(start, today) == Truthy(start) /\ IsPast(parse_date(start), today)

\* start_date is set, parses, and lies before today.
PastStart(issue, today) == StartIsPast(find_date_fields(issue)[1], today)

\* not status or status.strip().lower() != "open" does not hold.
ExactlyOpen(status) ==
    /\ status \notin {None, ""}
    /\ Lower(Strip(Chars(status))) = <<"o", "p", "e", "n">>

get_issues_with_past_start_date_open_raises(iss, today) ==
    \E k \in DOMAIN iss :
        \/ NameOfRaises(iss[k], "status")
        \/ /\ ExactlyOpen(NameOf(iss[k], "status", ""))
           /\ PastStart(iss[k], today)
           /\ CreatedIfAnyRaises(iss[k]) \/ CreatorRaises(iss[k])

\* start_date.split("T")[0] if "T" in start_date else start_date[:10]
StartDateText(start) ==
    IF Contains(start, "T") THEN PyStr(Split(start, "T")[1])
    ELSE PyStr(SubSeq(start, 1, Min(10, Len(start))))

get_issues_with_past_start_date_open(iss, today) ==
    LET keep(issue) ==
            ExactlyOpen(NameOf(issue, "status", "")) /\ PastStart(issue, today)
        entry(issue) ==
            [key |-> Key(issue),
             summary |-> Field(Fields(issue), "summary", PyStr(<<>>)),
             created_date |-> CreatedDateIfAny(issue),
             creator_name |-> CreatorName(issue),
             start_date |-> StartDateText(find_date_fields(issue)[1].s),
             status |-> NameOf(issue, "status", "")]
    IN  Collected([k \in { j \in DOMAIN iss : keep(iss[j]) } |-> entry(iss[k])])

\* status.lower() in ["in progress", "inprogress"]
InProgress(status) ==
    Lower(Chars(status)) \in
        { <<"i", "n", " ", "p", "r", "o", "g", "r", "e", "s", "s">>,
          <<"i", "n", "p", "r", "o", "g", "r", "e", "s", "s">> }

\* In progress and without assignee.
Unassigned(issue) ==
    /\ InProgress(NameOf(issue, "status", ""))
    /\ Falsy(Field(Fields(issue), "assignee", PyNone))

get_in_progress_issues_without_assignee_raises(iss) ==
    \E k \in DOMAIN iss :
        \/ NameOfRaises(iss[k], "status")
        \/ NameOf(iss[k], "status", "") = None
        \/ /\ Unassigned(iss[k])
           /\ CreatedIfAnyRaises(iss[k]) \/ CreatorRaises(iss[k])

get_in_progress_issues_without_assignee(iss) ==
    LET entry(issue) ==
            [key |-> Key(issue),
             summary |-> Field(Fields(issue), "summary", PyStr(<<>>)),
             created_date |-> CreatedDateIfAny(issue),
             creator_name |-> CreatorName(issue),
             status |-> NameOf(issue, "status", "")]
    IN  Collected([k \in { j \in DOMAIN iss : Unassigned(iss[j]) } |-> entry(iss[k])])

\* closed_statuses of check 4.8
ClosedStatuses ==
    { <<"d", "o", "n", "e">>, <<"c", "l", "o", "s", "e", "d">>,
      <<"r", "e", "s", "o", "l", "v", "e", "d">>,
      <<"c", "a", "n", "c", "e", "l", "l", "e", "d">>,
      <<"r", "e", "j", "e", "c", "t", "e", "d">>,
      <<"c", "o", "m", "p", "l", "e", "t", "e", "d">> }

\* count / total * 100, as a fraction
Percentage(count, total) == [num |-> count * 100, den |-> total]

\* The number 0 where a percentage stands.
PyZero == [num |-> 0, den |-> 1]

\* A date text of checks 3 and 4.8 is set, parses, and lies before today.
TextIsPast(text, today) == Truthy(text) /\ IsPast(ParsedDate(text.s), today)

\* Check 3: the end date is set, parses, and lies before today.
PastEnd(issue, today) == TextIsPast(find_date_fields(issue)[2], today)

\* Two datetimes, one with a UTC offset and one without: comparing them
\* is a TypeError.
AwareDiffer(a, b) == a # PyNone /\ b # PyNone /\ a.aware # b.aware

\* Check 4.7 compares the start and the end datetime of dates.
MixedOffsets(dates) ==
    /\ Truthy(dates[1]) /\ Truthy(dates[2])
    /\ AwareDiffer(ParsedDate(dates[1].s), ParsedDate(dates[2].s))

\* Check 4.7 raises TypeError, which its except clause does not catch.
DateOrderRaises(issue) == MixedOffsets(find_date_fields(issue))

\* The datetime check 3 keeps of an end date, None where it keeps none.
PastEndDate(end, today) ==
    IF TextIsPast(end, today) THEN ParsedDate(end.s) ELSE PyNone

\* Sorting the datetimes compares one with and one without UTC offset.
SortRaises(dates) == \E j, k \in DOMAIN dates : AwareDiffer(dates[j], dates[k])

\* Check 3 sorts the issues with a past end date by their datetimes and
\* prints summary[:60] of each.
PastEndPrintRaises(iss, today) ==
    \/ SortRaises([k \in DOMAIN iss |-> PastEndDate(find_date_fields(iss[k])[2], today)])
    \/ \E k \in DOMAIN iss :
            /\ Field(Fields(iss[k]), "summary", PyStr(<<>>)).t # "str"
            /\ PastEnd(iss[k], today)

\* Check 4.5: summary.lower() of a summary that is no str.
SummaryRaises(issue) ==
    LET summary == Field(Fields(issue), "summary", PyStr(<<>>))
    IN  ~Falsy(summary) /\ (IsDict(summary) \/ summary.t # "str")

\* The exception that leaves analyze_data_quality, None if it returns: the
\* checks run in this order.
analyze_data_quality_raises(iss, today) ==
    IF \E k \in DOMAIN iss : NameOfRaises(iss[k], "issuetype") THEN "AttributeError"
    ELSE IF Len(iss) = 0 THEN "ZeroDivisionError"
    ELSE IF PastEndPrintRaises(iss, today) THEN "TypeError"
    ELSE IF \E k \in DOMAIN iss :
                \/ NameOfRaises(iss[k], "status")
                \/ SummaryRaises(iss[k])
                \/ NameOf(iss[k], "status", "") = None
         THEN "AttributeError"
    ELSE IF \E k \in DOMAIN iss : DateOrderRaises(iss[k]) THEN "TypeError"
    ELSE None

\* Check 4.8 keeps an issue: its status is none of closed_statuses and its
\* start date lies before today.
PastStartNotClosed(issue, today) ==
    /\ Lower(Chars(NameOf(issue, "status", ""))) \notin ClosedStatuses
    /\ TextIsPast(find_date_fields(issue)[1], today)

\* Of dates, the start is missing or not, and the end is missing or not.
Missing(dates, no_start, no_end) ==
    (dates[1] = PyNone) = no_start /\ (dates[2] = PyNone) = no_end

\* analyze_data_quality(issues): the numbers it prints for checks 1, 2, 3,
\* 4.2, 4.8 and 4.9, each with its percentage of the total.
analyze_data_quality(iss, today) ==
    LET total_issues == Len(iss)
        Line(count) == [count |-> count, percentage |-> Percentage(count, total_issues)]
        without_parent(issue) == Falsy(ParentOf(issue))
        without_both(issue) == Missing(find_date_fields(issue), TRUE, TRUE)
        without_start(issue) == Missing(find_date_fields(issue), TRUE, FALSE)
        without_end(issue) == Missing(find_date_fields(issue), FALSE, TRUE)
        past_end(issue) == PastEnd(issue, today)
        without_assignee(issue) == Falsy(Field(Fields(issue), "assignee", PyNone))
        past_start_open(issue) == PastStartNotClosed(issue, today)
    IN  [total_issues |-> total_issues,
         issues_without_parent |-> Line(Cardinality({ k \in DOMAIN iss : without_parent(iss[k]) })),
         issues_without_both_dates |-> Line(Cardinality({ k \in DOMAIN iss : without_both(iss[k]) })),
         issues_without_start_date |-> Line(Cardinality({ k \in DOMAIN iss : without_start(iss[k]) })),
         issues_without_end_date |-> Line(Cardinality({ k \in DOMAIN iss : without_end(iss[k]) })),
         issues_with_past_end_date |-> Line(Cardinality({ k \in DOMAIN iss : past_end(iss[k]) })),
         issues_without_assignee |-> Line(Cardinality({ k \in DOMAIN iss : without_assignee(iss[k]) })),
         issues_past_start_open |-> Line(Cardinality({ k \in DOMAIN iss : past_start_open(iss[k]) })),
         in_progress_no_assignee |-> Line(Cardinality({ k \in DOMAIN iss : Unassigned(iss[k]) }))]

\* ------------------------------------------------------------------------
\* app.py: issues waiting for release, and the quality analysis
\* ------------------------------------------------------------------------

\* target_status
TargetStatus == "Waiting for release"

\* x or default, for a name
OrElse(x, default) == IF x \in {None, ""} THEN default ELSE x

\* A changelog item is a status change to the status status_lower names.
\* An item is a record of the names "field" and "toString".
ToStatus(item, status_lower) ==
    /\ Lower(Chars(OrElse(Get(item, "field", None), ""))) = <<"s", "t", "a", "t", "u", "s">>
    /\ Lower(Strip(Chars(OrElse(Get(item, "toString", None), "")))) = status_lower

\* created_raw.split("T")[0] if "T" in created_raw else created_raw[:10]
DatePart(text) ==
    IF Contains(text, "T") THEN Split(text, "T")[1]
    ELSE SubSeq(text, 1, Min(10, Len(text)))

\* _get_status_since_from_changelog(issue, status_name): the date of the
\* last history of the issue's own changelog with a change to the status,
\* None without one. A history is a record of "created" and "items".
get_status_since_from_changelog(issue, status_name) ==
    LET changelog == IF "changelog" \in DOMAIN issue /\ ~Falsy(issue.changelog)
                     THEN issue.changelog ELSE EmptyDict
        histories == Get(changelog, "histories", <<>>)
        status_lower == Lower(Strip(Chars(OrElse(status_name, ""))))
        hits == { k \in DOMAIN histories :
                    \E n \in DOMAIN Get(histories[k], "items", <<>>) :
                        ToStatus(Get(histories[k], "items", <<>>)[n], status_lower) }
    IN  IF status_lower = <<>> \/ hits = {} THEN PyNone
        ELSE LET h == histories[CHOOSE k \in hits : \A j \in hits : j <= k]
                 created_raw == Get(h, "created", PyNone)
             IN  IF Falsy(created_raw) THEN PyNone ELSE PyStr(DatePart(created_raw.s))

\* (fields.get(field) or {}).get("name") or ""
NameOrEmpty(issue, field) ==
    LET d == Field(Fields(issue), field, PyNone)
    IN  IF Falsy(d) THEN "" ELSE OrElse(Get(d, "name", None), "")

\* ... raises AttributeError: fields is no dict, or fields[field] is
\* neither falsy nor a dict.
NameOrEmptyRaises(issue, field) ==
    \/ ~IsDict(Fields(issue))
    \/ /\ ~Falsy(Field(Fields(issue), field, PyNone))
       /\ ~IsDict(Field(Fields(issue), field, PyNone))

\* allowed_types
AllowedTypes ==
    { <<"e", "p", "i", "c">>, <<"i", "n", "i", "t", "i", "a", "t", "i", "v", "e">>,
      <<"s", "t", "o", "r", "y">> }

\* An Epic, Initiative or Story waiting for release.
WaitingForRelease(issue) ==
    /\ Lower(Strip(Chars(NameOrEmpty(issue, "issuetype")))) \in AllowedTypes
    /\ Lower(Strip(Chars(NameOrEmpty(issue, "status")))) = Lower(Chars(TargetStatus))

get_issues_waiting_for_release_raises(iss) ==
    \E k \in DOMAIN iss :
        \/ NameOrEmptyRaises(iss[k], "issuetype")
        \/ /\ Lower(Strip(Chars(NameOrEmpty(iss[k], "issuetype")))) \in AllowedTypes
           /\ NameOrEmptyRaises(iss[k], "status")

get_issues_waiting_for_release(iss) ==
    LET entry(issue) ==
            [key |-> Key(issue),
             summary |-> IF Falsy(Field(Fields(issue), "summary", PyStr(<<>>)))
                         THEN PyStr(<<>>)
                         ELSE Field(Fields(issue), "summary", PyStr(<<>>)),
             issue_type |-> NameOrEmpty(issue, "issuetype"),
             status |-> NameOrEmpty(issue, "status"),
             status_since |-> get_status_since_from_changelog(issue, TargetStatus),
             id |-> IF "id" \in DOMAIN issue THEN issue.id ELSE ""]
    IN  Collected([k \in { j \in DOMAIN iss : WaitingForRelease(iss[j]) } |-> entry(iss[k])])

\* get_quality_analysis, past the cache lookup.
get_quality_analysis_raises(iss, today) ==
    \/ get_issues_with_past_start_date_open_raises(iss, today)
    \/ get_in_progress_issues_without_assignee_raises(iss)
    \/ get_issues_waiting_for_release_raises(iss)

get_quality_analysis(iss, today) ==
    LET total_issues == Len(iss)
        Line(list) ==
            [count |-> Len(list),
             percentage |-> IF total_issues > 0
                            THEN Percentage(Len(list), total_issues) ELSE PyZero]
    IN  [total_issues |-> total_issues,
         past_start_open |-> Line(get_issues_with_past_start_date_open(iss, today)),
         in_progress_no_assignee |-> Line(get_in_progress_issues_without_assignee(iss)),
         waiting_for_release |-> Line(get_issues_waiting_for_release(iss))]

\* ------------------------------------------------------------------------
\* app.py: the changelog of an issue, as the Jira server returns it
\* ------------------------------------------------------------------------

\* Days from 1970-01-01 to Epoch.
UnixEpochDay == 19723

\* The seconds of a UTC offset +HH, +HHMM or +HH:MM.
OffsetSeconds(r) ==
    (IF r[1] = "-" THEN -1 ELSE 1)
    * (DigitsValue(SubSeq(r, 2, 3)) * 3600
       + (IF Len(r) = 5 THEN DigitsValue(SubSeq(r, 4, 5)) * 60
          ELSE IF Len(r) = 6 THEN DigitsValue(SubSeq(r, 5, 6)) * 60
          ELSE 0))

\* The seconds since midnight of HH:MM:SS.
ClockSeconds(r) ==
    DigitsValue(SubSeq(r, 1, 2)) * 3600 + DigitsValue(SubSeq(r, 4, 5)) * 60
    + DigitsValue(SubSeq(r, 7, 8))

\* int(datetime.fromisoformat(s).timestamp()) of a text fromisoformat
\* accepts; a text without offset is taken as UTC.
Timestamp(s) ==
    (UnixEpochDay + fromisoformat(DateOfText(s))) * 86400
    + (IF Len(s) >= 19 THEN ClockSeconds(SubSeq(s, 12, 19)) ELSE 0)
    - (IF Len(s) >= 19 /\ OffsetAt(s) # 0
       THEN OffsetSeconds(SubSeq(s, OffsetAt(s), Len(s))) ELSE 0)

\* ts of _parse_created_to_date_str for a str: 0 for a ValueError.
TimestampOrZero(s) ==
    IF IsoDateOk(s) \/ FullIsoOk(s) THEN Timestamp(s) ELSE 0

\* _parse_created_to_date_str(created), created a str or None: the
\* timestamp to compare by and the text YYYY-MM-DD. (A created that is a
\* number counts milliseconds, beyond the integers of the model.)
parse_created_to_date_str(created) ==
    IF created = PyNone THEN [ts |-> 0, date_str |-> PyNone]
    ELSE [ts |-> TimestampOrZero(ReplaceZ(created.s)),
          date_str |-> PyStr(DatePart(created.s))]

\* The item of a history is a change of the field status to status_lower.
\* field, toString and to are names.
IsTransitionTo(item, status_lower) ==
    /\ Lower(Strip(Chars(OrElse(Get(item, "field", None), ""))))
          = <<"s", "t", "a", "t", "u", "s">>
    /\ Lower(Strip(Chars(OrElse(OrElse(Get(item, "toString", None),
                                       Get(item, "to", None)), ""))))
          = status_lower

\* The history with the largest timestamp among those at the positions
\* hits, the first of them in the list: best_ts, best_date of the loop.
Best(histories, hits) ==
    histories[CHOOSE k \in hits :
        \A j \in hits :
            \/ parse_created_to_date_str(histories[j].created).ts
                  < parse_created_to_date_str(histories[k].created).ts
            \/ /\ parse_created_to_date_str(histories[j].created).ts
                    = parse_created_to_date_str(histories[k].created).ts
               /\ k <= j]

\* The positions of the histories with a created and a change to the status.
TransitionsTo(histories, status_lower) ==
    { k \in DOMAIN histories :
        /\ Get(histories[k], "created", PyNone) # PyNone
        /\ \E n \in DOMAIN Get(histories[k], "items", <<>>) :
                IsTransitionTo(histories[k].items[n], status_lower) }

\* The date of the best of the histories at hits, None without one.
DateOfBest(histories, hits) ==
    IF hits = {} THEN PyNone
    ELSE parse_created_to_date_str(Best(histories, hits).created).date_str

\* _extract_status_since_from_histories(histories, status_lower): the date
\* of the latest transition to the status, None without one.
extract_status_since_from_histories(histories, status_lower) ==
    DateOfBest(histories, TransitionsTo(histories, status_lower))

\* ------------------------------------------------------------------------
\* Calls of the analysis functions
\* ------------------------------------------------------------------------

\* The fetcher is not running.
FetcherAtRest ==
    /\ eagerToken = FALSE
    /\ unending = {}
    /\ backend = <<>>
    /\ start_date = Epoch
    /\ end_date = Epoch
    /\ num_workers = 1
    /\ pc = "idle"
    /\ date_chunks = <<>>
    /\ tasks = <<>>
    /\ all_issues = <<>>
    /\ issues = None
    /\ file = None

\* ... and the credentials are set.
FetchIdle == configured = TRUE /\ FetcherAtRest

\* Most fields of an issue record in the inputs below.
MaxFields == 3

DateText == PyStr(<<"2", "0", "2", "4", "-", "0", "1", "-", "0", "5">>)

DateTimeText == PyStr(<<"2", "0", "2", "4", "-", "0", "3", "-", "0", "1", "T", "1", "0", ":", "0", "0", ":", "0", "0", ".", "0", "0", "0", "+", "0", "1", "0", "0">>)

NoSuchDayText == PyStr(<<"2", "0", "2", "4", "-", "0", "2", "-", "3", "0">>)

DueText == PyStr(<<"2", "0", "2", "4", "-", "0", "5", "-", "0", "1">>)

SummaryText == PyStr(<<"F", "i", "x", " ", "l", "o", "g", "i", "n", "!">>)

FieldKeys ==
    { <<"duedate">>, <<"summary">>, <<"customfield_", "9">>,
      <<"customfield_", "1", "0", "0", "1", "5">>, <<"customfield_", "x", "1">> }

FieldValues(key) ==
    IF key = <<"duedate">> THEN {PyNone, PyStr(<<>>), DueText}
    ELSE IF key = <<"summary">> THEN {SummaryText}
    ELSE {PyNone, DateText, DateTimeText, NoSuchDayText, PyInt(5)}

FieldItems == UNION { { [k |-> key, v |-> v] : v \in FieldValues(key) } : key \in FieldKeys }

\* Every fields dict of at most MaxFields items, in every encounter order.
FieldDicts ==
    UNION { { f \in [1..n -> FieldItems] :
                \A i, j \in 1..n : f[i].k = f[j].k => i = j } : n \in 0..MaxFields }

\* The issue records find_date_fields is called with: with each fields
\* dict, without "fields", and with null for "fields".
DateIssues ==
    { [key |-> "K-1", fields |-> PyDict(f)] : f \in FieldDicts }
    \cup { [key |-> "K-1"], [key |-> "K-1", fields |-> PyNone] }

InitDates ==
    /\ FetchIdle
    /\ AppIdle
    /\ \E i \in DateIssues :
         call = [fn |-> "find_date_fields", issue |-> i, state |-> "called",
                 result |-> PyNone]

CallFindDateFields ==
    /\ call.fn = "find_date_fields"
    /\ call.state = "called"
    /\ call' = IF find_date_fields_raises(call.issue)
               THEN [call EXCEPT !.state = "raised"]
               ELSE [call EXCEPT !.state = "returned",
                                 !.result = find_date_fields(call.issue)]
    /\ UNCHANGED <<fetchVars, appVars>>

NextDates == CallFindDateFields

SpecDates == InitDates /\ [][NextDates]_vars

TypeNames ==
    { "Epic", "Story", "Task", "Bug", "Spike", "Documentation", "Sub-task",
      "Initiative", "Improvement", "epic" }

\* The parent references has_correct_parent is called with: none, an empty
\* dict, dicts that lack fields, issuetype or name, and a parent of each type.
Parents ==
    { PyNone, EmptyDict, [key |-> "K-2"], [fields |-> EmptyDict],
      [fields |-> [issuetype |-> EmptyDict]] }
    \cup { [key |-> "K-2", fields |-> [issuetype |-> [name |-> t]]] : t \in TypeNames }

InitParent ==
    /\ FetchIdle
    /\ AppIdle
    /\ \E ty \in TypeNames, pa \in Parents :
         call = [fn |-> "has_correct_parent", issue_type |-> ty, parent |-> pa,
                 state |-> "called", result |-> FALSE]

CallHasCorrectParent ==
    /\ call.fn = "has_correct_parent"
    /\ call.state = "called"
    /\ call' = [call EXCEPT !.state = "returned",
                            !.result = has_correct_parent(call.issue_type, call.parent)]
    /\ UNCHANGED <<fetchVars, appVars>>

NextParent == CallHasCorrectParent

SpecParent == InitParent /\ [][NextParent]_vars

\* The first days split_date_range is called with: one early in a leap
\* year, one from which the ranges run over the end of the year.
SplitStarts == { strftime(1), strftime(340) }

\* Every range of 1 to MaxSpan + 1 days, for every worker count.
InitSplit ==
    /\ FetchIdle
    /\ AppIdle
    /\ \E s \in SplitStarts, span \in 0..MaxSpan, w \in 1..MaxWorkers :
         call = [fn |-> "split_date_range", start |-> s,
                 end |-> strftime(fromisoformat(s) + span), num_chunks |-> w,
                 state |-> "called", result |-> <<>>]

CallSplitDateRange ==
    /\ call.fn = "split_date_range"
    /\ call.state = "called"
    /\ call' = [call EXCEPT !.state = "returned",
                            !.result = split_date_range(call.start, call.end,
                                                        call.num_chunks)]
    /\ UNCHANGED <<fetchVars, appVars>>

NextSplit == CallSplitDateRange

SpecSplit == InitSplit /\ [][NextSplit]_vars

\* The day the analysis runs, datetime.now().
Today == <<2024, 6, 15>>

TodayText == PyStr(<<"2", "0", "2", "4", "-", "0", "6", "-", "1", "5">>)

FutureText == PyStr(<<"2", "0", "2", "4", "-", "1", "2", "-", "2", "4">>)

Item(name, v) == [k |-> <<name>>, v |-> v]

\* A parent reference of issue type t.
ParentRef(t) == [key |-> "K-0", fields |-> [issuetype |-> [name |-> t]]]

\* A well-formed Story under an Epic: open, assigned, without dates.
BaseItems ==
    <<Item("summary", SummaryText), Item("issuetype", [name |-> "Story"]),
      Item("parent", ParentRef("Epic")), Item("status", [name |-> "Open"]),
      Item("created", DateTimeText), Item("creator", [displayName |-> "Ann"]),
      Item("assignee", [displayName |-> "Bob"])>>

\* The items with name set to v, in place.
SetItem(items, name, v) ==
    [k \in 1..Len(items) |-> IF items[k].k = <<name>> THEN Item(name, v) ELSE items[k]]

DelItem(items, name) == SelectSeq(items, LAMBDA f : f.k # <<name>>)

\* Issues of type t under a parent of type p, without parent for p = None.
LinkItems(t, p) ==
    SetItem(SetItem(BaseItems, "issuetype", [name |-> t]), "parent",
            IF p = None THEN PyNone ELSE ParentRef(p))

\* Stories of status st that start on the date of customfield_9, found
\* behind customfield_10015 in the record.
StatusItems(st, start) ==
    SetItem(BaseItems, "status", [name |-> st])
    \o <<[k |-> <<"customfield_", "1", "0", "0", "1", "5">>, v |-> FutureText],
         [k |-> <<"customfield_", "9">>, v |-> start]>>

\* Well-formed issue records: the parent hierarchy, the statuses with a
\* start before, on and after Today, an unassigned one in progress and an
\* Epic waiting for release.
WellFormedItems ==
    { LinkItems(c[1], c[2]) :
        c \in { <<"Epic", "Initiative">>, <<"Epic", "Epic">>, <<"Story", None>>,
                <<"Initiative", None>>, <<"Initiative", "Epic">> } }
    \cup { StatusItems(c[1], c[2]) :
        c \in { <<"Open", DateText>>, <<" OPEN ", DateTimeText>>, <<"Open", TodayText>>,
                <<"Open", FutureText>>, <<"OPEN (Waiting)", DateText>>,
                <<"Done", DateText>> } }
    \cup { DelItem(StatusItems("In Progress", DateText), "assignee"),
           SetItem(LinkItems("Epic", "Initiative"), "status",
                   [name |-> "waiting for Release "]) }

\* Records that lack a field, hold null for it, or a value of another type.
MalformedItems ==
    { DelItem(BaseItems, "issuetype"),
      SetItem(BaseItems, "issuetype", PyNone),
      SetItem(BaseItems, "status", PyNone),
      SetItem(BaseItems, "creator", PyNone),
      SetItem(BaseItems, "created", PyNone),
      SetItem(BaseItems, "parent", PyStr(<<"K", "-", "0">>)),
      SetItem(DelItem(DelItem(StatusItems("Open", PyInt(5)), "creator"), "created"),
              "summary", PyNone) }

\* The values of "fields" in the snapshots.
CandidateFields ==
    { PyDict(f) : f \in WellFormedItems \cup MalformedItems } \cup { PyNone }

\* Most issues of a snapshot under analysis.
MaxAnalysed == 2

\* Every snapshot of at most MaxAnalysed issues, keyed by position, and
\* the ones whose first issue has no "fields".
Snapshots ==
    UNION { { [k \in 1..n |-> [key |-> <<"K-1", "K-2", "K-3">>[k], fields |-> f[k]]] :
                f \in [1..n -> CandidateFields] } : n \in 0..MaxAnalysed }
    \cup { <<[key |-> "K-1"]>> }

\* The issue types asked for: one that expects a parent, one that does not.
ArgTypes == { "Story", "Initiative" }

NewCall(fn, iss, issue_type, unlinked_only) ==
    [fn |-> fn, issues |-> iss, issue_type |-> issue_type,
     unlinked_only |-> unlinked_only, today |-> Today, state |-> "called",
     result |-> <<>>]

InitAnalysis ==
    /\ FetchIdle
    /\ AppIdle
    /\ \/ \E ty \in TypeNames, pa \in Parents :
            call = [fn |-> "has_correct_parent", issue_type |-> ty, parent |-> pa,
                    state |-> "called", result |-> FALSE]
       \/ \E iss \in Snapshots :
            \/ call = NewCall("count_issues_by_type", iss, None, FALSE)
            \/ \E ty \in ArgTypes, u \in BOOLEAN :
                    call = NewCall("filter_issues_by_type", iss, ty, u)
            \/ \E ty \in ArgTypes :
                    \/ call = NewCall("get_all_issues_by_type", iss, ty, FALSE)
                    \/ call = NewCall("get_unlinked_issues", iss, ty, FALSE)
            \/ \E fn \in { "get_issues_with_past_start_date_open",
                            "get_in_progress_issues_without_assignee",
                            "get_issues_waiting_for_release",
                            "get_quality_analysis", "analyze_data_quality" } :
                    call = NewCall(fn, iss, None, FALSE)
            \/ /\ Len(iss) = 1
               /\ call = [fn |-> "find_date_fields", issue |-> iss[1],
                          state |-> "called", result |-> PyNone]

\* The call raises exc.
Raise(exc) == [call EXCEPT !.state = "raised", !.result = exc]

Return(value) == [call EXCEPT !.state = "returned", !.result = value]

CallCountIssuesByType ==
    /\ call.fn = "count_issues_by_type"
    /\ call.state = "called"
    /\ call' = IF count_issues_by_type_raises(call.issues)
               THEN Raise("AttributeError")
               ELSE Return(count_issues_by_type(call.issues))
    /\ UNCHANGED <<fetchVars, appVars>>

CallFilterIssuesByType ==
    /\ call.fn = "filter_issues_by_type"
    /\ call.state = "called"
    /\ call' = IF filter_issues_by_type_raises(call.issues, call.issue_type,
                                               call.unlinked_only)
               THEN Raise("AttributeError")
               ELSE Return(filter_issues_by_type(call.issues, call.issue_type,
                                                 call.unlinked_only))
    /\ UNCHANGED <<fetchVars, appVars>>

CallGetAllIssuesByType ==
    /\ call.fn = "get_all_issues_by_type"
    /\ call.state = "called"
    /\ call' = IF get_all_issues_by_type_raises(call.issues, call.issue_type)
               THEN Raise("AttributeError")
               ELSE Return(get_all_issues_by_type(call.issues, call.issue_type))
    /\ UNCHANGED <<fetchVars, appVars>>

CallGetUnlinkedIssues ==
    /\ call.fn = "get_unlinked_issues"
    /\ call.state = "called"
    /\ call' = IF get_unlinked_issues_raises(call.issues, call.issue_type)
               THEN Raise("AttributeError")
               ELSE Return(get_unlinked_issues(call.issues, call.issue_type))
    /\ UNCHANGED <<fetchVars, appVars>>

CallGetIssuesWithPastStartDateOpen ==
    /\ call.fn = "get_issues_with_past_start_date_open"
    /\ call.state = "called"
    /\ call' = IF get_issues_with_past_start_date_open_raises(call.issues, call.today)
               THEN Raise("AttributeError")
               ELSE Return(get_issues_with_past_start_date_open(call.issues, call.today))
    /\ UNCHANGED <<fetchVars, appVars>>

CallGetInProgressIssuesWithoutAssignee ==
    /\ call.fn = "get_in_progress_issues_without_assignee"
    /\ call.state = "called"
    /\ call' = IF get_in_progress_issues_without_assignee_raises(call.issues)
               THEN Raise("AttributeError")
               ELSE Return(get_in_progress_issues_without_assignee(call.issues))
    /\ UNCHANGED <<fetchVars, appVars>>

CallGetIssuesWaitingForRelease ==
    /\ call.fn = "get_issues_waiting_for_release"
    /\ call.state = "called"
    /\ call' = IF get_issues_waiting_for_release_raises(call.issues)
               THEN Raise("AttributeError")
               ELSE Return(get_issues_waiting_for_release(call.issues))
    /\ UNCHANGED <<fetchVars, appVars>>

\* get_quality_analysis with _quality_analysis_cache empty.
CallGetQualityAnalysis ==
    /\ call.fn = "get_quality_analysis"
    /\ call.state = "called"
    /\ call' = IF get_quality_analysis_raises(call.issues, call.today)
               THEN Raise("AttributeError")
               ELSE Return(get_quality_analysis(call.issues, call.today))
    /\ UNCHANGED <<fetchVars, appVars>>

CallAnalyzeDataQuality ==
    /\ call.fn = "analyze_data_quality"
    /\ call.state = "called"
    /\ \E exc \in {analyze_data_quality_raises(call.issues, call.today)} :
            call' = IF exc # None THEN Raise(exc)
                    ELSE Return(analyze_data_quality(call.issues, call.today))
    /\ UNCHANGED <<fetchVars, appVars>>

NextAnalysis ==
    \/ CallHasCorrectParent
    \/ CallCountIssuesByType
    \/ CallFilterIssuesByType
    \/ CallGetAllIssuesByType
    \/ CallGetUnlinkedIssues
    \/ CallGetIssuesWithPastStartDateOpen
    \/ CallGetInProgressIssuesWithoutAssignee
    \/ CallGetIssuesWaitingForRelease
    \/ CallGetQualityAnalysis
    \/ CallAnalyzeDataQuality
    \/ CallFindDateFields

SpecAnalysis == InitAnalysis /\ [][NextAnalysis]_vars

\* ------------------------------------------------------------------------
\* app.py: the web server, its snapshot and its caches
\* ------------------------------------------------------------------------

\* A list, where None may stand as well.
PyList(items) == [t |-> "list", items |-> items]

\* DATA_FILE with this content, last written at mtime.
File(content, mtime) == [exists |-> TRUE, content |-> content, mtime |-> mtime]

\* if _issues_cache is None or _file_mtime != current_mtime
Reloads == issues_cache = PyNone \/ file_mtime # PyInt(data_file.mtime)

\* The module globals as they stand.
Globals ==
    [issues_cache |-> issues_cache, file_mtime |-> file_mtime,
     unlinked_cache |-> unlinked_cache, all_by_type_cache |-> all_by_type_cache,
     quality_analysis_cache |-> quality_analysis_cache]

\* A mutant: a reload leaves _all_by_type_cache as it is.
load_issues_KeepsAllByType ==
    IF Reloads
    THEN [Globals EXCEPT !.issues_cache = PyList(data_file.content),
                         !.file_mtime = PyInt(data_file.mtime),
                         !.unlinked_cache = <<>>,
                         !.quality_analysis_cache = PyNone]
    ELSE Globals

\* load_issues() with DATA_FILE in place: the globals behind it, of which
\* issues_cache is what it returns.
load_issues ==
    IF Reloads
    THEN [issues_cache |-> PyList(data_file.content),
          file_mtime |-> PyInt(data_file.mtime),
          unlinked_cache |-> <<>>,
          all_by_type_cache |-> <<>>,
          quality_analysis_cache |-> PyNone]
    ELSE Globals

\* The globals become g.
Assign(g) ==
    /\ issues_cache' = g.issues_cache
    /\ file_mtime' = g.file_mtime
    /\ unlinked_cache' = g.unlinked_cache
    /\ all_by_type_cache' = g.all_by_type_cache
    /\ quality_analysis_cache' = g.quality_analysis_cache

\* cache[key] = value
Put(cache, key, value) == (key :> value) @@ cache

\* The results the functions returned since DATA_FILE was last written,
\* with these: the last result of each call, by function and argument.
Served(results) ==
    [k \in DOMAIN results \cup DOMAIN served |->
        IF k \in DOMAIN results THEN results[k] ELSE served[k]]

\* No request is half served.
Ready == request.state \in {"idle", "returned", "raised"}

\* The handler returns body: the globals become g.
Returns(route, g, body, results) ==
    /\ Assign(g)
    /\ request' = [route |-> route, state |-> "returned", response |-> body]
    /\ served' = Served(results)

\* The handler raises, or aborts: the server answers with the status
\* code, and what the handler assigned before stays: the globals g.
Fails(route, g, code) ==
    /\ Assign(g)
    /\ request' = [route |-> route, state |-> "raised", response |-> code]
    /\ UNCHANGED served

\* A mutant: get_quality_analysis computes its result at every call.
get_quality_analysis_cached_Recomputed(g, today) ==
    get_quality_analysis(g.issues_cache.items, today)

\* get_quality_analysis(issues) with its cache lookup, the globals being g.
get_quality_analysis_cached(g, today) ==
    IF g.quality_analysis_cache # PyNone THEN g.quality_analysis_cache
    ELSE get_quality_analysis(g.issues_cache.items, today)

\* ... raises
get_quality_analysis_cached_raises(g, today) ==
    /\ g.quality_analysis_cache = PyNone
    /\ get_quality_analysis_raises(g.issues_cache.items, today)

\* get_unlinked_issues(issues, issue_type) with its cache lookup.
get_unlinked_issues_cached(g, issue_type) ==
    IF issue_type \in DOMAIN g.unlinked_cache THEN g.unlinked_cache[issue_type]
    ELSE get_unlinked_issues(g.issues_cache.items, issue_type)

get_unlinked_issues_cached_raises(g, issue_type) ==
    /\ issue_type \notin DOMAIN g.unlinked_cache
    /\ get_unlinked_issues_raises(g.issues_cache.items, issue_type)

\* get_all_issues_by_type(issues, issue_type) with its cache lookup.
get_all_issues_by_type_cached(g, issue_type) ==
    IF issue_type \in DOMAIN g.all_by_type_cache THEN g.all_by_type_cache[issue_type]
    ELSE get_all_issues_by_type(g.issues_cache.items, issue_type)

get_all_issues_by_type_cached_raises(g, issue_type) ==
    /\ issue_type \notin DOMAIN g.all_by_type_cache
    /\ get_all_issues_by_type_raises(g.issues_cache.items, issue_type)

\* extract_project_name(issues)
extract_project_name(iss) ==
    IF iss = <<>> THEN "No data" ELSE NameOf(iss[1], "project", "Unknown project")

extract_project_name_raises(iss) ==
    iss # <<>> /\ NameOfRaises(iss[1], "project")

\* index raises: one of the functions it calls does.
index_raises(g, today) ==
    \/ count_issues_by_type_raises(g.issues_cache.items)
    \/ extract_project_name_raises(g.issues_cache.items)
    \/ \E ty \in {"Epic", "Story", "Task"} :
            filter_issues_by_type_raises(g.issues_cache.items, ty, TRUE)
    \/ get_quality_analysis_cached_raises(g, today)

\* What index hands to its template; type_counts_list holds the counts of
\* type_counts, ordered by type name.
IndexPage(iss, quality_analysis) ==
    [total_issues |-> Len(iss),
     project_name |-> extract_project_name(iss),
     type_counts |-> count_issues_by_type(iss),
     epics |-> filter_issues_by_type(iss, "Epic", TRUE),
     stories |-> filter_issues_by_type(iss, "Story", TRUE),
     tasks |-> filter_issues_by_type(iss, "Task", TRUE),
     quality_analysis |-> quality_analysis]

\* The response of index and the two results it is served from.
IndexReturns(g, quality_analysis) ==
    Returns("index", [g EXCEPT !.quality_analysis_cache = quality_analysis],
            IndexPage(g.issues_cache.items, quality_analysis),
            (<<"count_issues_by_type", "">>
                :> count_issues_by_type(g.issues_cache.items))
            @@ (<<"get_quality_analysis", "">> :> quality_analysis))

\* GET /
index ==
    /\ Ready
    /\ data_file.exists
    /\ IF index_raises(load_issues, now) THEN Fails("index", load_issues, 500)
       ELSE IndexReturns(load_issues, get_quality_analysis_cached(load_issues, now))
    /\ UNCHANGED <<fetchVars, call, data_file, now, jira, traffic>>

\* What the JSON endpoints answer with.
Listing(name, issue_list) ==
    [name |-> name, count |-> Len(issue_list), issues |-> issue_list]

UnlinkedReturns(g, issue_type, unlinked) ==
    Returns("unlinked", [g EXCEPT !.unlinked_cache = Put(@, issue_type, unlinked)],
            Listing(issue_type, unlinked),
            <<"get_unlinked_issues", issue_type>> :> unlinked)

\* GET /api/unlinked/<issue_type>
get_unlinked_api ==
    /\ Ready
    /\ data_file.exists
    /\ \E issue_type \in ArgTypes :
         IF get_unlinked_issues_cached_raises(load_issues, issue_type)
         THEN Fails("unlinked", load_issues, 500)
         ELSE UnlinkedReturns(load_issues, issue_type,
                              get_unlinked_issues_cached(load_issues, issue_type))
    /\ UNCHANGED <<fetchVars, call, data_file, now, jira, traffic>>

AllByTypeReturns(g, issue_type, all_issues_of_type) ==
    Returns("all", [g EXCEPT !.all_by_type_cache = Put(@, issue_type, all_issues_of_type)],
            Listing(issue_type, all_issues_of_type),
            <<"get_all_issues_by_type", issue_type>> :> all_issues_of_type)

\* GET /api/all/<issue_type>
get_all_by_type_api ==
    /\ Ready
    /\ data_file.exists
    /\ \E issue_type \in ArgTypes :
         IF get_all_issues_by_type_cached_raises(load_issues, issue_type)
         THEN Fails("all", load_issues, 500)
         ELSE AllByTypeReturns(load_issues, issue_type,
                               get_all_issues_by_type_cached(load_issues, issue_type))
    /\ UNCHANGED <<fetchVars, call, data_file, now, jira, traffic>>

\* GET /api/quality/past-start-open
get_past_start_open_api ==
    /\ Ready
    /\ data_file.exists
    /\ IF get_issues_with_past_start_date_open_raises(load_issues.issues_cache.items, now)
       THEN Fails("past-start-open", load_issues, 500)
       ELSE Returns("past-start-open", load_issues,
                    Listing("past_start_open",
                            get_issues_with_past_start_date_open(
                                load_issues.issues_cache.items, now)),
                    <<>>)
    /\ UNCHANGED <<fetchVars, call, data_file, now, jira, traffic>>

\* GET /api/quality/in-progress-no-assignee
get_in_progress_no_assignee_api ==
    /\ Ready
    /\ data_file.exists
    /\ IF get_in_progress_issues_without_assignee_raises(load_issues.issues_cache.items)
       THEN Fails("in-progress-no-assignee", load_issues, 500)
       ELSE Returns("in-progress-no-assignee", load_issues,
                    Listing("in_progress_no_assignee",
                            get_in_progress_issues_without_assignee(
                                load_issues.issues_cache.items)),
                    <<>>)
    /\ UNCHANGED <<fetchVars, call, data_file, now, jira, traffic>>

\* The analysis types asked of /quality/<analysis_type>.
AnalysisTypes == {"past-start-open", "in-progress-no-assignee", "other"}

quality_analysis_page_raises(iss, analysis_type, today) ==
    \/ /\ analysis_type = "past-start-open"
       /\ get_issues_with_past_start_date_open_raises(iss, today)
    \/ /\ analysis_type = "in-progress-no-assignee"
       /\ get_in_progress_issues_without_assignee_raises(iss)

\* result of quality_analysis_page
QualityPage(iss, analysis_type, today) ==
    Listing(analysis_type,
            IF analysis_type = "past-start-open"
            THEN get_issues_with_past_start_date_open(iss, today)
            ELSE get_in_progress_issues_without_assignee(iss))

\* GET /quality/<analysis_type>
quality_analysis_page ==
    /\ Ready
    /\ data_file.exists
    /\ \E analysis_type \in AnalysisTypes :
         IF analysis_type = "other" THEN Fails("quality", load_issues, 404)
         ELSE IF quality_analysis_page_raises(load_issues.issues_cache.items,
                                              analysis_type, now)
         THEN Fails("quality", load_issues, 500)
         ELSE Returns("quality", load_issues,
                      QualityPage(load_issues.issues_cache.items, analysis_type, now),
                      <<>>)
    /\ UNCHANGED <<fetchVars, call, data_file, now, jira, traffic>>

\* The routes that begin with load_issues().
Routes ==
    {"index", "unlinked", "all", "past-start-open", "in-progress-no-assignee",
     "waiting-for-release", "quality"}

\* load_issues aborts a request: DATA_FILE does not exist.
AbortNoFile ==
    /\ Ready
    /\ ~data_file.exists
    /\ \E route \in Routes : Fails(route, Globals, 500)
    /\ UNCHANGED <<fetchVars, call, data_file, now, jira, traffic>>

\* The day after Today.
Tomorrow == <<2024, 6, 16>>

\* The issue record with this key and these fields.
IssueOf(key, items) == [key |-> key, fields |-> PyDict(items)]

\* The snapshots DATA_FILE holds in turn: none, an open Story that starts
\* Today, an unlinked Story beside an open one with a past start, and two
\* with a null creator and a null status.
Contents ==
    { <<>>,
      <<IssueOf("K-1", StatusItems("Open", TodayText))>>,
      <<IssueOf("K-1", LinkItems("Story", None)),
        IssueOf("K-2", StatusItems("Open", DateText))>>,
      <<IssueOf("K-1", SetItem(BaseItems, "creator", PyNone))>>,
      <<IssueOf("K-1", SetItem(BaseItems, "status", PyNone))>> }

\* The mtime of the last write of DATA_FILE the model follows.
MaxMtime == 2

\* save_issues_to_file writes DATA_FILE anew: a later mtime.
WriteDataFile ==
    /\ IF data_file.exists THEN data_file.mtime < MaxMtime ELSE TRUE
    /\ \E content \in Contents :
         data_file' = File(content, IF data_file.exists THEN data_file.mtime + 1 ELSE 1)
    /\ served' = <<>>
    /\ UNCHANGED <<fetchVars, call, cacheVars, now, request, jira, traffic>>

\* The day ends.
Midnight ==
    /\ now = Today
    /\ now' = Tomorrow
    /\ UNCHANGED <<fetchVars, call, data_file, cacheVars, request, served, jira, traffic>>

\* The web server has started: the module globals as app.py assigns them.
InitApp ==
    /\ FetchIdle
    /\ call = NoCall
    /\ data_file \in {NoFile} \cup { File(content, 1) : content \in Contents }
    /\ issues_cache = PyNone
    /\ file_mtime = PyNone
    /\ unlinked_cache = <<>>
    /\ all_by_type_cache = <<>>
    /\ quality_analysis_cache = PyNone
    /\ now = Today
    /\ request = NoRequest
    /\ served = <<>>
    /\ jira = <<>>
    /\ traffic = NoTraffic

\* Requests are served one at a time.
NextApp ==
    \/ index
    \/ get_unlinked_api
    \/ get_all_by_type_api
    \/ get_past_start_open_api
    \/ get_in_progress_no_assignee_api
    \/ quality_analysis_page
    \/ AbortNoFile
    \/ WriteDataFile
    \/ Midnight

SpecApp == InitApp /\ [][NextApp]_vars

\* ------------------------------------------------------------------------
\* app.py: the waiting-for-release endpoint and the changelogs of Jira
\* ------------------------------------------------------------------------

\* range(100): the most requests to the bulk endpoint.
BulkRounds == 100

\* range(50): the most requests for the changelog of one issue.
FallbackRounds == 50

\* max_results of the changelog of one issue: 100 in the code.
max_results == 2

\* requests.RequestException: no answer arrives.
TransportError == [kind |-> "transport"]

\* An answer with a status code other than 200.
Not200 == [kind |-> "status"]

\* An answer with status code 200 whose body is no JSON: resp.json() raises.
BadBody == [kind |-> "body"]

\* The page the token names: the first without one.
PageNumber(token) == IF token = NoToken THEN 1 ELSE token

\* The answer of the bulk endpoint the server holds for the token: a
\* nextPageToken on every page but the last; a server that never ends
\* hands its pages out again and again, each with a nextPageToken.
BulkPage(token) ==
    [kind |-> "ok",
     issueChangeLogs |-> jira.bulk[((PageNumber(token) - 1) % Len(jira.bulk)) + 1],
     nextPageToken |-> IF "bulk" \in jira.endless \/ PageNumber(token) < Len(jira.bulk)
                       THEN PageNumber(token) + 1 ELSE NoToken]

\* What may come back from requests.post: a server without the bulk
\* endpoint answers 404.
BulkAnswers(token) ==
    {TransportError, Not200, BadBody}
    \cup (IF jira.bulk = <<>> THEN {} ELSE {BulkPage(token)})

\* The answer of GET /rest/api/3/issue/{key}/changelog?startAt=&maxResults=
\* A server that never ends fills every page, with a total beyond it.
ChangelogPage(key, start_at) ==
    IF key \in jira.endless
    THEN [kind |-> "ok",
          values |-> [n \in 1..max_results |->
                        jira.changelog[key][((start_at + n - 1)
                                             % Len(jira.changelog[key])) + 1]],
          total |-> start_at + max_results + 1]
    ELSE [kind |-> "ok",
          values |-> SubSeq(jira.changelog[key], start_at + 1,
                            Min(start_at + max_results, Len(jira.changelog[key]))),
          total |-> Len(jira.changelog[key])]

\* What may come back from requests.get: 404 for an issue the server does
\* not know.
ChangelogAnswers(key, start_at) ==
    {TransportError, Not200, BadBody}
    \cup (IF key \in DOMAIN jira.changelog THEN {ChangelogPage(key, start_at)} ELSE {})

\* status_lower of _fetch_changelog_status_since
status_lower == Lower(Strip(Chars(TargetStatus)))

\* keys = [item["key"] for item in result]
KeysOf(result) == [n \in DOMAIN result |-> result[n].key]

\* id_to_key = {item["id"]: item["key"] for item in result if item.get("id")}
id_to_key(result) ==
    [id \in { result[n].id : n \in { m \in DOMAIN result : result[m].id # "" } } |->
        result[CHOOSE n \in DOMAIN result :
                    /\ result[n].id = id
                    /\ \A m \in DOMAIN result : result[m].id = id => m <= n].key]

\* if date_str and (key not in result_map or date_str > result_map[key]):
\*     result_map[key] = date_str
Newer(result_map, key, date_str) ==
    IF ~Truthy(date_str) THEN result_map
    ELSE IF key \notin DOMAIN result_map THEN Put(result_map, key, date_str)
    ELSE IF StrLess(result_map[key].s, date_str.s) THEN Put(result_map, key, date_str)
    ELSE result_map

\* The body of the loop over issueChangeLogs, for one log.
MergeLog(result_map, log, ids) ==
    IF log.issueId \notin DOMAIN ids THEN result_map
    ELSE IF ids[log.issueId] = "" THEN result_map
    ELSE Newer(result_map, ids[log.issueId],
               extract_status_since_from_histories(log.changeHistories, status_lower))

\* for log in data.get("issueChangeLogs") or []
RECURSIVE MergeLogs(_, _, _)
MergeLogs(result_map, logs, ids) ==
    IF logs = <<>> THEN result_map
    ELSE MergeLogs(MergeLog(result_map, Head(logs), ids), Tail(logs), ids)

\* A mutant: no issue is looked up one by one.
missing_None(issue_keys, result_map) == <<>>

\* missing = [k for k in issue_keys if k not in result_map]
missing(issue_keys, result_map) ==
    SelectSeq(issue_keys, LAMBDA k : k \notin DOMAIN result_map)

\* if date_str: result_map[key] = date_str
Found(result_map, key, date_str) ==
    IF Truthy(date_str) THEN Put(result_map, key, date_str) ELSE result_map

\* status_since_map.get(item["key"]) or item.get("status_since")
status_since(item, status_since_map) ==
    IF item.key \notin DOMAIN status_since_map THEN item.status_since
    ELSE IF Truthy(status_since_map[item.key]) THEN status_since_map[item.key]
    ELSE item.status_since

\* item["days_in_status"]: the days from since[:10] to today, None for a
\* since that is no text of 10 characters or more or that strptime refuses.
days_in_status(since, today) ==
    IF since.t # "str" THEN PyNone
    ELSE IF Len(since.s) < 10 THEN PyNone
    ELSE IF ~IsoDateOk(SubSeq(since.s, 1, 10)) THEN PyNone
    ELSE PyInt(fromisoformat(today) - fromisoformat(DateOfText(since.s)))

\* An item of the response: its id is popped.
WaitingItem(item, since, today) ==
    [key |-> item.key, summary |-> item.summary, issue_type |-> item.issue_type,
     status |-> item.status, status_since |-> since,
     days_in_status |-> days_in_status(since, today)]

\* The handler past the changelogs: it returns.
Respond(g, result, status_since_map) ==
    Returns("waiting-for-release", g,
            Listing("waiting_for_release",
                    [n \in DOMAIN result |->
                        WaitingItem(result[n], status_since(result[n], status_since_map),
                                    now)]),
            <<>>)

\* The handler stays in _fetch_changelog_status_since, with these locals.
Resolving(locals) ==
    /\ request' = locals
    /\ UNCHANGED <<cacheVars, served>>

\* result.json() raises: the handler ends with status code 500.
RaisesInResolver == Fails("waiting-for-release", Globals, 500)

\* The handler up to the first request to Jira; without an issue waiting or
\* without credentials it asks nothing.
Begin(g, result) ==
    IF result # <<>> /\ configured
    THEN /\ Assign(g)
         /\ request' = [route |-> "waiting-for-release", state |-> "bulk",
                        result |-> result, result_map |-> <<>>, rounds |-> 0,
                        next_page_token |-> NoToken]
         /\ UNCHANGED served
    ELSE Respond(g, result, <<>>)

\* GET /api/quality/waiting-for-release
get_waiting_for_release_api ==
    /\ Ready
    /\ data_file.exists
    /\ traffic' = NoTraffic
    /\ IF get_issues_waiting_for_release_raises(load_issues.issues_cache.items)
       THEN Fails("waiting-for-release", load_issues, 500)
       ELSE Begin(load_issues, get_issues_waiting_for_release(load_issues.issues_cache.items))
    /\ UNCHANGED <<fetchVars, call, data_file, now, jira>>

\* The loop over the issues without a date begins, or there is none.
Fallback(result, result_map) ==
    IF missing(KeysOf(result), result_map) = <<>>
    THEN Respond(Globals, result, result_map)
    ELSE Resolving([route |-> "waiting-for-release", state |-> "fallback",
                    result |-> result, result_map |-> result_map,
                    missing |-> missing(KeysOf(result), result_map),
                    all_histories |-> <<>>, start_at |-> 0, rounds |-> 0])

\* A mutant: while True instead of range(100).
AfterPage_WhileTrue(result_map, token) ==
    IF token = NoToken
    THEN Fallback(request.result, result_map)
    ELSE Resolving([request EXCEPT !.result_map = result_map, !.rounds = @ + 1,
                                   !.next_page_token = token])

\* The bulk loop past a page: it ends without a nextPageToken.
AfterPage(result_map, token) ==
    IF token = NoToken \/ request.rounds + 1 >= BulkRounds
    THEN Fallback(request.result, result_map)
    ELSE Resolving([request EXCEPT !.result_map = result_map, !.rounds = @ + 1,
                                   !.next_page_token = token])

\* The bulk loop past requests.post.
AfterPost(answer) ==
    IF answer.kind = "body" THEN RaisesInResolver
    ELSE IF answer.kind # "ok" THEN Fallback(request.result, request.result_map)
    ELSE AfterPage(MergeLogs(request.result_map, answer.issueChangeLogs,
                             id_to_key(request.result)),
                   answer.nextPageToken)

\* One round of the bulk loop: POST /rest/api/3/changelog/bulkfetch
PostBulkfetch ==
    /\ request.state = "bulk"
    /\ \E answer \in BulkAnswers(request.next_page_token) :
         /\ traffic' = [traffic EXCEPT !.posts = Append(@, answer)]
         /\ AfterPost(answer)
    /\ UNCHANGED <<fetchVars, call, data_file, now, jira>>

\* The loop over missing past one key.
AfterKey(result_map) ==
    IF Tail(request.missing) = <<>>
    THEN Respond(Globals, request.result, result_map)
    ELSE Resolving([request EXCEPT !.result_map = result_map, !.missing = Tail(@),
                                   !.all_histories = <<>>, !.start_at = 0,
                                   !.rounds = 0])

\* The loop over the pages of one key has ended with all_histories.
AfterPages(all_histories) ==
    AfterKey(Found(request.result_map, Head(request.missing),
                   extract_status_since_from_histories(all_histories, status_lower)))

\* The loop over the pages of one key past requests.get.
AfterGet(answer) ==
    IF answer.kind = "body" THEN RaisesInResolver
    ELSE IF answer.kind # "ok" THEN AfterPages(request.all_histories)
    ELSE IF \/ request.start_at + Len(answer.values) >= answer.total
            \/ Len(answer.values) < max_results
            \/ request.rounds + 1 >= FallbackRounds
    THEN AfterPages(request.all_histories \o answer.values)
    ELSE Resolving([request EXCEPT !.all_histories = @ \o answer.values,
                                   !.start_at = @ + Len(answer.values),
                                   !.rounds = @ + 1])

\* One round of the loop over the pages of one key:
\* GET /rest/api/3/issue/{key}/changelog
GetIssueChangelog ==
    /\ request.state = "fallback"
    /\ \E answer \in ChangelogAnswers(Head(request.missing), request.start_at) :
         /\ traffic' = [traffic EXCEPT !.gets =
                            Append(@, [key |-> Head(request.missing),
                                       start_at |-> request.start_at,
                                       answer |-> answer])]
         /\ AfterGet(answer)
    /\ UNCHANGED <<fetchVars, call, data_file, now, jira>>

\* A history with one change of the status, to the status named.
History(created, to) ==
    [created |-> created, items |-> <<[field |-> "status", toString |-> to]>>]

\* An entry of issueChangeLogs.
Log(issueId, histories) == [issueId |-> issueId, changeHistories |-> histories]

\* The issue of this type with this key and id, waiting for release.
Waiting(key, id, t) ==
    [key |-> key, id |-> id,
     fields |-> PyDict(SetItem(SetItem(BaseItems, "issuetype", [name |-> t]),
                               "status", [name |-> TargetStatus]))]

\* The snapshots of DATA_FILE: no issue waiting, one, and two beside an
\* open one. The fetcher writes no changelog into an issue.
WaitingSnapshots ==
    { <<IssueOf("K-3", BaseItems)>>,
      <<Waiting("K-1", "1", "Story")>>,
      <<Waiting("K-1", "1", "Story"), IssueOf("K-3", BaseItems),
        Waiting("K-2", "2", "Epic")>> }

\* 2024-03-01T23:30:00.000+0000
LateUtcText ==
    PyStr(<<"2", "0", "2", "4", "-", "0", "3", "-", "0", "1", "T", "2", "3", ":",
            "3", "0", ":", "0", "0", ".", "0", "0", "0", "+", "0", "0", "0", "0">>)

\* 2024-03-02T00:30:00.000+0300: two hours before LateUtcText.
EarlyEastText ==
    PyStr(<<"2", "0", "2", "4", "-", "0", "3", "-", "0", "2", "T", "0", "0", ":",
            "3", "0", ":", "0", "0", ".", "0", "0", "0", "+", "0", "3", "0", "0">>)

\* What the bulk endpoint holds: nothing (no such endpoint), a page with
\* the transition of K-1, a page without K-1, two pages with two
\* transitions of K-1, the later one first, and one of K-2, and two
\* transitions of K-1 created under two UTC offsets, in one log and in two
\* pages.
BulkLogs ==
    { <<>>,
      << <<Log("1", <<History(LateUtcText, "Waiting for release"),
                      History(EarlyEastText, "Waiting for release")>>)>> >>,
      << <<Log("1", <<History(LateUtcText, "Waiting for release")>>)>>,
         <<Log("1", <<History(EarlyEastText, "Waiting for release")>>)>> >>,
      << <<Log("1", <<History(DateTimeText, "Waiting for release")>>)>> >>,
      << <<Log("9", <<History(DateTimeText, "Waiting for release")>>),
           Log("1", <<History(DateText, "Open")>>)>> >>,
      << <<Log("1", <<History(DateTimeText, "waiting for Release ")>>)>>,
         <<Log("1", <<History(DateText, "Waiting for release")>>),
           Log("2", <<History(TodayText, "Waiting for release")>>)>> >> }

\* The changelog the server holds for one issue: none, one transition on
\* 2024-03-01, three histories of which the last is the transition, and
\* a transition with a created that names no day.
Changelogs ==
    { <<>>,
      <<History(DateTimeText, "Waiting for release")>>,
      <<History(DateText, "Open"), History(DateText, "In Progress"),
        History(TodayText, "Waiting for release")>>,
      <<History(NoSuchDayText, "Waiting for release")>> }

\* Two servers that never end: one whose bulk endpoint hands out, page
\* after page, the transitions of both issues, and one without bulk
\* endpoint whose changelog of K-1 has no last page.
EndlessServers ==
    { [bulk |-> << <<Log("1", <<History(DateTimeText, "Waiting for release")>>)>>,
                   <<Log("2", <<History(TodayText, "Waiting for release")>>)>> >>,
       changelog |-> [k \in {"K-1", "K-2"} |-> <<>>],
       endless |-> {"bulk"}],
      [bulk |-> <<>>,
       changelog |-> [k \in {"K-1", "K-2"} |->
                        IF k = "K-1"
                        THEN <<History(DateText, "Open"),
                               History(DateTimeText, "Waiting for release")>>
                        ELSE <<>>],
       endless |-> {"K-1"}] }

\* The web server has started, and Jira holds its changelogs.
InitChangelog ==
    /\ configured \in BOOLEAN
    /\ FetcherAtRest
    /\ call = NoCall
    /\ data_file \in { File(content, 1) : content \in WaitingSnapshots }
    /\ issues_cache = PyNone
    /\ file_mtime = PyNone
    /\ unlinked_cache = <<>>
    /\ all_by_type_cache = <<>>
    /\ quality_analysis_cache = PyNone
    /\ now = Today
    /\ request = NoRequest
    /\ served = <<>>
    /\ jira \in [bulk : BulkLogs, changelog : [{"K-1", "K-2"} -> Changelogs],
                 endless : {{}}]
              \cup EndlessServers
    /\ traffic = NoTraffic

NextChangelog ==
    \/ get_waiting_for_release_api
    \/ PostBulkfetch
    \/ GetIssueChangelog

SpecChangelog == InitChangelog /\ [][NextChangelog]_vars

\* ------------------------------------------------------------------------
\* app.py: requests served by several threads
\* ------------------------------------------------------------------------

\* The threads of the server that serve requests: app.run serves each
\* request in a thread of its own.
Threads == {1, 2}

\* The functions with a cache, and the argument each is asked with.
CachedCalls ==
    { <<"get_unlinked_issues", "Story">>, <<"get_all_issues_by_type", "Story">>,
      <<"get_quality_analysis", "">> }

\* The function finds its result in its cache.
CacheHit(fn, arg) ==
    IF fn = "get_unlinked_issues" THEN arg \in DOMAIN unlinked_cache
    ELSE IF fn = "get_all_issues_by_type" THEN arg \in DOMAIN all_by_type_cache
    ELSE quality_analysis_cache # PyNone

\* What the cache of the function holds for the argument.
Cached(fn, arg) ==
    IF fn = "get_unlinked_issues" THEN unlinked_cache[arg]
    ELSE IF fn = "get_all_issues_by_type" THEN all_by_type_cache[arg]
    ELSE quality_analysis_cache

\* What the function computes from the issues, past its cache lookup.
Computed(fn, arg, iss, today) ==
    IF fn = "get_unlinked_issues" THEN get_unlinked_issues(iss, arg)
    ELSE IF fn = "get_all_issues_by_type" THEN get_all_issues_by_type(iss, arg)
    ELSE get_quality_analysis(iss, today)

\* The globals with the result saved to the cache of the function.
Saved(fn, arg, result) ==
    IF fn = "get_unlinked_issues"
    THEN [Globals EXCEPT !.unlinked_cache = Put(@, arg, result)]
    ELSE IF fn = "get_all_issues_by_type"
    THEN [Globals EXCEPT !.all_by_type_cache = Put(@, arg, result)]
    ELSE [Globals EXCEPT !.quality_analysis_cache = result]

\* The handler of thread t calls issues = load_issues().
ThreadLoads(t) ==
    /\ request[t].state \in {"idle", "returned"}
    /\ data_file.exists
    /\ \E c \in CachedCalls :
         request' = [request EXCEPT ![t] =
                        [route |-> c[1], arg |-> c[2], state |-> "loaded",
                         issues |-> load_issues.issues_cache.items]]
    /\ Assign(load_issues)
    /\ UNCHANGED <<fetchVars, call, data_file, now, served, jira, traffic>>

\* The function called by thread t looks its cache up: it returns what it
\* finds, or computes its result from the issues it was handed.
ThreadComputes(t) ==
    /\ request[t].state = "loaded"
    /\ request' = [request EXCEPT ![t] =
            IF CacheHit(request[t].route, request[t].arg)
            THEN [route |-> request[t].route, arg |-> request[t].arg,
                  state |-> "returned", memoized |-> TRUE,
                  response |-> Cached(request[t].route, request[t].arg)]
            ELSE [route |-> request[t].route, arg |-> request[t].arg,
                  state |-> "computed",
                  result |-> Computed(request[t].route, request[t].arg,
                                      request[t].issues, now)]]
    /\ UNCHANGED <<fetchVars, call, data_file, cacheVars, now, served, jira, traffic>>

\* The function called by thread t saves its result to its cache and
\* returns it.
ThreadSaves(t) ==
    /\ request[t].state = "computed"
    /\ Assign(Saved(request[t].route, request[t].arg, request[t].result))
    /\ request' = [request EXCEPT ![t] =
            [route |-> request[t].route, arg |-> request[t].arg,
             state |-> "returned", memoized |-> FALSE,
             response |-> request[t].result]]
    /\ UNCHANGED <<fetchVars, call, data_file, now, served, jira, traffic>>

\* The snapshots DATA_FILE holds in turn: an unlinked Story, and the same
\* beside an open Story with a past start.
ThreadContents ==
    { <<IssueOf("K-1", LinkItems("Story", None))>>,
      <<IssueOf("K-1", LinkItems("Story", None)),
        IssueOf("K-2", StatusItems("Open", DateText))>> }

\* The web server has started, with DATA_FILE in place.
InitThreads ==
    /\ FetchIdle
    /\ call = NoCall
    /\ data_file \in { File(content, 1) : content \in ThreadContents }
    /\ issues_cache = PyNone
    /\ file_mtime = PyNone
    /\ unlinked_cache = <<>>
    /\ all_by_type_cache = <<>>
    /\ quality_analysis_cache = PyNone
    /\ now = Today
    /\ request = [t \in Threads |-> NoRequest]
    /\ served = <<>>
    /\ jira = <<>>
    /\ traffic = NoTraffic

\* DATA_FILE is written anew, with another content.
WriteOtherContent ==
    /\ data_file.mtime < MaxMtime
    /\ \E content \in ThreadContents \ {data_file.content} :
         data_file' = File(content, data_file.mtime + 1)
    /\ UNCHANGED <<fetchVars, call, cacheVars, now, request, served, jira, traffic>>

NextThreads ==
    \/ \E t \in Threads : ThreadLoads(t)
    \/ \E t \in Threads : ThreadComputes(t)
    \/ \E t \in Threads : ThreadSaves(t)
    \/ WriteOtherContent

SpecThreads == InitThreads /\ [][NextThreads]_vars

\* ------------------------------------------------------------------------
\* Properties of the parallel fetch
\* ------------------------------------------------------------------------

Range(s) == { s[k] : k \in DOMAIN s }

Count(s, x) == Cardinality({ k \in DOMAIN s : s[k] = x })

SameBag(s, t) == \A x \in Range(s) \cup Range(t) : Count(s, x) = Count(t, x)

Returned == pc \in {"returned", "saved"}

Failed == { i \in DOMAIN tasks : tasks[i].state = "failed" }

AllSucceeded == \A i \in DOMAIN tasks : tasks[i].state = "done"

\* C1: when every partition fetch succeeds, fetch_all_issues_parallel
\* returns the same multiset of issues as one fetch_all_issues_for_project
\* over the whole range: every issue created within the range exactly once.
C1_ParallelEqualsSingleFetch ==
    (Returned /\ AllSucceeded) =>
        /\ SameBag(issues, fetch_all_issues_for_project(start_date, end_date))
        /\ \A x \in Range(backend) :
             Count(issues, x) =
                IF Matches(x, build_jql(start_date, end_date)) THEN 1 ELSE 0

\* C1's case: three partitions, all fetched, issues from more than one.
C1_Witness ==
    /\ Returned /\ AllSucceeded
    /\ Len(tasks) = 3
    /\ Cardinality({ i \in DOMAIN tasks : tasks[i].all_issues # <<>> }) >= 2
    /\ Len(issues) = MaxIssues

\* C2: the returned list is sorted ascending by fields.created, whatever
\* the completion order and whichever partitions failed.
C2_ResultSortedByCreated ==
    Returned =>
        \A k \in 1..(Len(issues) - 1) :
            LexLeq(CreatedKey(issues[k]), CreatedKey(issues[k + 1]))

\* C2's case: a partition failed and two others delivered issues.
C2_Witness ==
    /\ Returned
    /\ Failed # {}
    /\ Cardinality({ i \in DOMAIN tasks :
                       tasks[i].state = "done" /\ tasks[i].all_issues # <<>> }) >= 2
    /\ Len(issues) >= 2

\* C3: a failed partition does not stop the run: no exception leaves the
\* coordinator and the run can always go on to its return, every issue of
\* a partition that succeeded is in the returned list, and no partition is
\* started more than once.
C3_FailureIsSkippedNotRetried ==
    /\ pc \in {"main", "collect", "returned", "saved"}
    /\ (Failed # {} /\ pc # "saved") => ENABLED Next
    /\ \A i \in DOMAIN tasks :
         /\ tasks[i].started <= 1
         /\ tasks[i].state \in {"running", "done", "failed"} => tasks[i].started = 1
    /\ Returned =>
         \A i \in DOMAIN tasks :
            tasks[i].state = "done" =>
                \A x \in Range(tasks[i].all_issues) : Count(issues, x) = 1

\* C3's case: the run returned although a partition failed, with the
\* issues of another partition.
C3_Witness ==
    /\ pc = "saved"
    /\ Failed # {}
    /\ \E i \in DOMAIN tasks : tasks[i].state = "done" /\ tasks[i].all_issues # <<>>

\* What a run without any failure returns for the same range and backend.
CompleteResult == SortByCreated(fetch_all_issues_for_project(start_date, end_date))

\* C4: when a partition failed, the value returned to the caller tells so:
\* it differs from the value a complete run returns (stated for a run with
\* credentials and more than one partition).
C4_CallerToldOfFailedPartitions ==
    (configured /\ Returned /\ Failed # {} /\ Len(tasks) >= 2)
        => issues # CompleteResult

\* The issues of the pages of a request log, in request order.
RECURSIVE ConcatPages(_)
ConcatPages(log) ==
    IF log = <<>> THEN <<>>
    ELSE ConcatPages(SubSeq(log, 1, Len(log) - 1)) \o log[Len(log)].issues

\* A response with zero issues or without token.
StopsPaging(entry) == entry.issues = <<>> \/ entry.nextPageToken = NoToken

\* C5: the continuation-token protocol of fetch_all_issues_for_project, on
\* the requests of each partition: the first carries no token, each later
\* one the token of the response before it, no request follows a response
\* with zero issues or no token, and the result is the pages concatenated.
C5_TokenProtocol ==
    \A i \in DOMAIN tasks :
        LET log == tasks[i].log
        IN  /\ log # <<>> => log[1].token = NoToken
            /\ \A k \in 2..Len(log) :
                 /\ log[k].token = log[k - 1].nextPageToken
                 /\ log[k - 1].status = "200"
                 /\ ~StopsPaging(log[k - 1])
            /\ (tasks[i].state = "running" /\ log # <<>>) => ~StopsPaging(log[Len(log)])
            /\ tasks[i].state = "done" =>
                 /\ log # <<>>
                 /\ StopsPaging(log[Len(log)])
                 /\ tasks[i].all_issues = ConcatPages(log)

\* C5's case: a fetch of two pages that a page without issues ended, and
\* one that a page without token ended.
C5_Witness ==
    /\ \E i \in DOMAIN tasks :
         /\ tasks[i].state = "done"
         /\ Len(tasks[i].log) = 2
         /\ tasks[i].log[2].issues = <<>>
         /\ tasks[i].log[2].token # NoToken
    /\ \E i \in DOMAIN tasks :
         /\ tasks[i].state = "done"
         /\ tasks[i].log[Len(tasks[i].log)].issues # <<>>

\* C6: a page request that fails ends its partition's fetch at once (it is
\* the last request of that partition), only that partition fails, and no
\* page received for it is in the merged list.
C6_FailedPartitionContributesNothing ==
    \A i \in DOMAIN tasks :
        LET log == tasks[i].log
        IN  /\ \A k \in DOMAIN log :
                 log[k].status # "200" => (k = Len(log) /\ tasks[i].state = "failed")
            /\ tasks[i].state = "failed" =>
                 /\ \A x \in Range(ConcatPages(log)) : Count(all_issues, x) = 0
                 /\ Returned => \A j \in DOMAIN tasks :
                        tasks[j].state = "done" =>
                            \A x \in Range(tasks[j].all_issues) : Count(issues, x) = 1

\* C6's case: a partition failed on its second page, after a first page
\* with issues, and the run returned the issues of another partition.
C6_Witness ==
    /\ Returned
    /\ issues # <<>>
    /\ \E i \in DOMAIN tasks :
         /\ tasks[i].state = "failed"
         /\ Len(tasks[i].log) = 2
         /\ tasks[i].log[1].issues # <<>>

\* C7: without JIRA_URL, JIRA_EMAIL or JIRA_TOKEN no request is sent and
\* the run ends in an error: it neither returns nor saves a snapshot.
C7_ConfigErrorIsFatal ==
    ~configured =>
        /\ \A i \in DOMAIN tasks : tasks[i].log = <<>>
        /\ ~Returned
        /\ file = None


\* ------------------------------------------------------------------------
\* Properties of find_date_fields
\* ------------------------------------------------------------------------

CallReturned(fn) == call.fn = fn /\ call.state = "returned"

IssueFields(i) == IF "fields" \in DOMAIN i THEN i.fields.items ELSE <<>>

\* The positions of the date-like custom fields of an issue.
DateLike(i) ==
    { k \in DOMAIN IssueFields(i) :
        IsCustomKey(IssueFields(i)[k].k) /\ is_date_string(IssueFields(i)[k].v) }

\* The issue has a non-empty duedate.
HasDueDate(i) ==
    \E k \in DOMAIN IssueFields(i) :
        IssueFields(i)[k].k = <<"duedate">> /\ Truthy(IssueFields(i)[k].v)

\* C8: for an issue without duedate, find_date_fields returns (None, None)
\* with no date-like custom field, (None, v) with exactly one, of value v,
\* and a start and an end with two or more.
C8_StartEndByNumberOfDateFields ==
    (CallReturned("find_date_fields") /\ ~HasDueDate(call.issue)) =>
        LET i == call.issue
            n == Cardinality(DateLike(i))
        IN  /\ n = 0 => call.result = <<PyNone, PyNone>>
            /\ n = 1 => \A k \in DateLike(i) :
                            call.result = <<PyNone, IssueFields(i)[k].v>>
            /\ n >= 2 => (call.result[1] # PyNone /\ call.result[2] # PyNone)

\* C8's case: a call returned for an issue without duedate and with two
\* date-like custom fields.
C8_Witness ==
    /\ CallReturned("find_date_fields")
    /\ ~HasDueDate(call.issue)
    /\ Cardinality(DateLike(call.issue)) = 2
    /\ call.result[1] # call.result[2]

\* C9: whenever the issue has a non-empty duedate, the end date returned by
\* find_date_fields is that duedate, whatever custom fields it has.
C9_DueDateIsTheEndDate ==
    (CallReturned("find_date_fields") /\ HasDueDate(call.issue)) =>
        \A k \in DOMAIN IssueFields(call.issue) :
            IssueFields(call.issue)[k].k = <<"duedate">> =>
                call.result[2] = IssueFields(call.issue)[k].v

\* ------------------------------------------------------------------------
\* Properties of has_correct_parent
\* ------------------------------------------------------------------------

\* The ParentExpectation table: the types a valid parent may have.
ExpectedParentTypes(ty) ==
    CASE ty = "Epic" -> {"Initiative"}
      [] ty \in {"Story", "Task", "Bug", "Spike", "Documentation"} -> {"Epic"}
      [] ty = "Sub-task" -> {"Story", "Task"}
      [] OTHER -> {}

\* The issue type names of a parent reference: none when the parent, its
\* fields, its issuetype or the name is absent.
ParentTypes(pa) ==
    IF pa = PyNone \/ pa = EmptyDict THEN {}
    ELSE IF "fields" \in DOMAIN pa
            /\ "issuetype" \in DOMAIN pa.fields
            /\ "name" \in DOMAIN pa.fields.issuetype
         THEN {pa.fields.issuetype.name}
         ELSE {}

\* C10: for every issue type that requires a parent, has_correct_parent is
\* true iff the parent has a type the ParentExpectation table allows; an
\* absent parent is never correct.
C10_ParentExpectationTable ==
    (CallReturned("has_correct_parent") /\ ExpectedParentTypes(call.issue_type) # {}) =>
        /\ call.result <=>
              (ParentTypes(call.parent) \cap ExpectedParentTypes(call.issue_type) # {})
        /\ call.parent = PyNone => ~call.result

\* C10's case: a Sub-task under a Task is found correctly linked.
C10_Witness ==
    /\ CallReturned("has_correct_parent")
    /\ call.issue_type = "Sub-task"
    /\ ParentTypes(call.parent) = {"Task"}
    /\ call.result

\* ------------------------------------------------------------------------
\* Properties of split_date_range
\* ------------------------------------------------------------------------

\* The first and the last day of chunk k of a result, as day numbers.
ChunkFirst(r, k) == fromisoformat(r[k][1])

ChunkLast(r, k) == fromisoformat(r[k][2])

FieldId(i, k) == DigitsValue(KeySuffix(IssueFields(i)[k].k))

\* C20: with two or more date-like custom fields, find_date_fields takes
\* the start from the field of the lowest numeric key suffix and the end
\* from the field of the second lowest, wherever they stand in the record;
\* if a suffix is not an integer, it takes the first and the second
\* date-like field in encounter order.
C20_NumericOrderElseEncounterOrder ==
    (CallReturned("find_date_fields") /\ Cardinality(DateLike(call.issue)) >= 2) =>
        LET i == call.issue
            D == DateLike(i)
        IN  IF \A k \in D : AllDigits(KeySuffix(IssueFields(i)[k].k))
            THEN \E a \in D : \E b \in D \ {a} :
                    /\ \A k \in D : FieldId(i, a) <= FieldId(i, k)
                    /\ \A k \in D \ {a} : FieldId(i, b) <= FieldId(i, k)
                    /\ call.result = <<IssueFields(i)[a].v, IssueFields(i)[b].v>>
            ELSE \E a \in D : \E b \in D \ {a} :
                    /\ \A k \in D : a <= k
                    /\ \A k \in D \ {a} : b <= k
                    /\ call.result = <<IssueFields(i)[a].v, IssueFields(i)[b].v>>

\* C20's case: customfield_10015 stands before customfield_9 in the record,
\* with different dates, and the start is the date of customfield_9.
C20_Witness ==
    /\ CallReturned("find_date_fields")
    /\ Cardinality(DateLike(call.issue)) = 2
    /\ \E a, b \in DateLike(call.issue) :
         /\ a < b
         /\ IssueFields(call.issue)[a].k = <<"customfield_", "1", "0", "0", "1", "5">>
         /\ IssueFields(call.issue)[b].k = <<"customfield_", "9">>
         /\ IssueFields(call.issue)[a].v # IssueFields(call.issue)[b].v
         /\ call.result = <<IssueFields(call.issue)[b].v, IssueFields(call.issue)[a].v>>

\* ------------------------------------------------------------------------
\* Properties of the operations that report link status
\* ------------------------------------------------------------------------

\* The issue type has no required parent.
NoRequiredParent(ty) == ExpectedParentTypes(ty) = {}

\* C11: an issue whose type has no required parent is never reported as a
\* violation, whatever its parent: has_correct_parent is true for it,
\* count_issues_by_type counts no unlinked issue of its type,
\* get_unlinked_issues and filter_issues_by_type with unlinked_only do not
\* list it, and get_all_issues_by_type gives it has_parent = True.
C11_NoRequiredParentIsNeverAViolation ==
    /\ (CallReturned("has_correct_parent") /\ NoRequiredParent(call.issue_type))
            => call.result
    /\ CallReturned("count_issues_by_type") =>
            \A t \in DOMAIN call.result :
                NoRequiredParent(t) => call.result[t].unlinked = 0
    /\ (CallReturned("get_unlinked_issues") /\ NoRequiredParent(call.issue_type))
            => call.result = <<>>
    /\ (CallReturned("filter_issues_by_type") /\ call.unlinked_only
            /\ NoRequiredParent(call.issue_type))
            => call.result = <<>>
    /\ (CallReturned("get_all_issues_by_type") /\ NoRequiredParent(call.issue_type))
            => \A k \in DOMAIN call.result : call.result[k].has_parent

\* The status name of the issue, trimmed and lower-cased, is "open", and
\* find_date_fields gives it a start date before today.
OpenWithPastStart(issue) ==
    /\ NameOf(issue, "status", "") # None
    /\ Lower(Strip(Chars(NameOf(issue, "status", "")))) = <<"o", "p", "e", "n">>
    /\ StartIsPast(find_date_fields(issue)[1], Today)

\* C12: both analyzers of the past-start-but-still-open set keep an issue
\* iff its status name, trimmed and lower-cased, is exactly "open" and its
\* start date lies strictly before today: the dashboard's
\* get_issues_with_past_start_date_open lists exactly those issues, and
\* check 4.8 of analyze_data_quality counts exactly those issues.
C12_PastStartOpenIsExactlyOpen ==
    /\ CallReturned("get_issues_with_past_start_date_open") =>
            /\ Len(call.result) = Cardinality({ k \in DOMAIN call.issues : OpenWithPastStart(call.issues[k]) })
            /\ \A k \in DOMAIN call.issues :
                    OpenWithPastStart(call.issues[k]) <=>
                        \E n \in DOMAIN call.result :
                            call.result[n].key = Key(call.issues[k])
    /\ CallReturned("analyze_data_quality") =>
            call.result.issues_past_start_open.count
                = Cardinality({ k \in DOMAIN call.issues : OpenWithPastStart(call.issues[k]) })

\* C13: called with an empty issue list, neither get_quality_analysis nor
\* analyze_data_quality raises, and every percentage they give for a total
\* of 0 is 0; for a total above 0 it is count / total * 100.
C13_PercentagesWithoutDivisionFault ==
    /\ (call.fn \in {"get_quality_analysis", "analyze_data_quality"}
            /\ call.issues = <<>>)
            => call.state # "raised"
    /\ (call.fn \in {"get_quality_analysis", "analyze_data_quality"}
            /\ call.state = "returned")
            => \A name \in DOMAIN call.result \ {"total_issues"} :
                   call.result[name].percentage
                       = IF Len(call.issues) = 0 THEN PyZero
                         ELSE Percentage(call.result[name].count, Len(call.issues))

\* The operations of the quality-analysis layer that take issue records.
QualityLayer ==
    { "count_issues_by_type", "get_unlinked_issues", "get_all_issues_by_type",
      "get_issues_with_past_start_date_open",
      "get_in_progress_issues_without_assignee",
      "get_issues_waiting_for_release", "find_date_fields" }

\* C18: no operation of the quality-analysis layer raises, whatever issue
\* records it is given: a call of count_issues_by_type,
\* get_unlinked_issues, get_all_issues_by_type,
\* get_issues_with_past_start_date_open,
\* get_in_progress_issues_without_assignee, get_issues_waiting_for_release
\* or find_date_fields on records with missing, null or ill-typed fields
\* never ends in an exception.
C18_QualityLayerNeverRaises ==
    call.fn \in QualityLayer => call.state # "raised"

\* ------------------------------------------------------------------------
\* Properties of the web server's caches
\* ------------------------------------------------------------------------

\* The days the model follows.
Days == {Today, Tomorrow}

\* C16: whenever load_issues has replaced the snapshot, all three caches
\* went with it: in every state the snapshot in memory is the content of
\* DATA_FILE if its mtime is the one recorded, and each entry of
\* _unlinked_cache and _all_by_type_cache and the _quality_analysis_cache
\* are results computed from the snapshot in memory, never from an older
\* one.
C16_CachesAreOfTheSnapshot ==
    issues_cache # PyNone =>
        /\ (data_file.exists /\ file_mtime = PyInt(data_file.mtime))
                => issues_cache.items = data_file.content
        /\ \A ty \in DOMAIN unlinked_cache :
                unlinked_cache[ty] = get_unlinked_issues(issues_cache.items, ty)
        /\ \A ty \in DOMAIN all_by_type_cache :
                all_by_type_cache[ty] = get_all_issues_by_type(issues_cache.items, ty)
        /\ quality_analysis_cache # PyNone =>
                \E day \in Days :
                    quality_analysis_cache = get_quality_analysis(issues_cache.items, day)

\* load_issues has replaced a snapshot by a different one, and all three
\* caches are filled again.
C16_Witness ==
    /\ issues_cache # PyNone
    /\ file_mtime # PyInt(1)
    /\ issues_cache.items = data_file.content
    /\ "Story" \in DOMAIN unlinked_cache
    /\ unlinked_cache["Story"] # <<>>
    /\ "Story" \in DOMAIN all_by_type_cache
    /\ quality_analysis_cache # PyNone

\* C17: two successive calls of get_quality_analysis, count_issues_by_type,
\* get_unlinked_issues or get_all_issues_by_type with no write of DATA_FILE
\* between them return equal results: a step never changes the result a
\* function has returned since the last write.
C17_SameSnapshotSameResult ==
    [][\A k \in DOMAIN served \cap DOMAIN served' : served'[k] = served[k]]_vars

\* index has called get_quality_analysis on the second day, and returned
\* what the call of the first day on the same snapshot returned: not what
\* the analysis of the second day gives.
C17_Witness ==
    /\ issues_cache # PyNone
    /\ request = [route |-> "index", state |-> "returned",
                  response |-> IndexPage(issues_cache.items, quality_analysis_cache)]
    /\ now = Tomorrow
    /\ <<"get_quality_analysis", "">> \in DOMAIN served
    /\ served[<<"get_quality_analysis", "">>] = quality_analysis_cache
    /\ served[<<"get_quality_analysis", "">>]
         # get_quality_analysis(issues_cache.items, now)

\* ------------------------------------------------------------------------
\* Properties of the changelog resolver
\* ------------------------------------------------------------------------

\* id_to_key of the request, from the snapshot in memory.
SnapshotIds == id_to_key(get_issues_waiting_for_release(issues_cache.items))

\* The log is of the issue with this key and holds a transition to the
\* target status.
LogYields(log, key) ==
    IF log.issueId \notin DOMAIN SnapshotIds THEN FALSE
    ELSE /\ SnapshotIds[log.issueId] = key
         /\ Truthy(extract_status_since_from_histories(log.changeHistories, status_lower))

\* The bulk endpoint has delivered a transition of the issue.
BulkYields(key) ==
    \E p \in DOMAIN traffic.posts :
        IF traffic.posts[p].kind # "ok" THEN FALSE
        ELSE \E n \in DOMAIN traffic.posts[p].issueChangeLogs :
                LogYields(traffic.posts[p].issueChangeLogs[n], key)

\* The histories the per-issue endpoint has delivered for the key, page
\* after page.
RECURSIVE Delivered(_, _)
Delivered(gets, key) ==
    IF gets = <<>> THEN <<>>
    ELSE (IF Head(gets).key # key THEN <<>>
          ELSE IF Head(gets).answer.kind # "ok" THEN <<>>
          ELSE Head(gets).answer.values)
         \o Delivered(Tail(gets), key)

\* The date of the transition the per-issue endpoint has delivered, None
\* without one.
FallbackDate(key) ==
    extract_status_since_from_histories(Delivered(traffic.gets, key), status_lower)

\* The handler has returned, and had asked Jira.
ResolverReturned ==
    /\ request.route = "waiting-for-release"
    /\ request.state = "returned"
    /\ traffic.posts # <<>>

\* days_in_status of the item counts the days from the date to today.
DaysSince(item, date) ==
    IF ~IsoDateOk(date.s) THEN TRUE
    ELSE item.days_in_status
            = PyInt(fromisoformat(now) - fromisoformat(DateOfText(date.s)))

\* The key of the item was asked of the per-issue endpoint, and a
\* transition delivered there is its status_since.
LookedUp(item) ==
    /\ \E g \in DOMAIN traffic.gets : traffic.gets[g].key = item.key
    /\ IF ~Truthy(FallbackDate(item.key)) THEN TRUE
       ELSE /\ item.status_since = FallbackDate(item.key)
            /\ DaysSince(item, FallbackDate(item.key))

\* C14: every issue key for which the bulk lookup delivered no matching
\* transition (the endpoint failing, absent, or answering without that
\* issue) is asked of the per-issue changelog endpoint, a matching
\* transition delivered there is the status_since of the issue in the
\* response, and days_in_status is the number of days from that date to
\* today.
C14_FallbackResolvesWhatBulkMissed ==
    ResolverReturned =>
        \A n \in DOMAIN request.response.issues :
            BulkYields(request.response.issues[n].key)
                \/ LookedUp(request.response.issues[n])

\* The bulk endpoint failed, and the per-issue endpoint delivered the
\* transition of K-1 on 2024-03-01, 106 days before today.
C14_Witness ==
    /\ ResolverReturned
    /\ traffic.posts = <<TransportError>>
    /\ \E n \in DOMAIN request.response.issues :
            /\ request.response.issues[n].key = "K-1"
            /\ request.response.issues[n].status_since
                  = PyStr(<<"2", "0", "2", "4", "-", "0", "3", "-", "0", "1">>)
            /\ request.response.issues[n].days_in_status = PyInt(106)

\* Neither endpoint delivered a transition of the issue of the item.
Unresolved(item) ==
    ~BulkYields(item.key) /\ ~Truthy(FallbackDate(item.key))

\* C15: when neither the bulk lookup nor the per-issue lookup delivers a
\* transition to the target status for an issue, whatever the requests to
\* Jira end in, no error leaves the handler, the issue has no entry in
\* result_map, and its status_since and days_in_status in the response are
\* None.
C15_UnresolvedStaysUnset ==
    (request.route = "waiting-for-release" /\ traffic.posts # <<>>) =>
        /\ request.state # "raised"
        /\ request.state \in {"bulk", "fallback"} =>
                \A k \in DOMAIN request.result_map :
                    BulkYields(k) \/ Truthy(FallbackDate(k))
        /\ request.state = "returned" =>
                \A n \in DOMAIN request.response.issues :
                    Unresolved(request.response.issues[n]) =>
                        /\ request.response.issues[n].status_since = PyNone
                        /\ request.response.issues[n].days_in_status = PyNone

\* The histories of the issue in these logs, log after log.
RECURSIVE LogsHistories(_, _)
LogsHistories(logs, key) ==
    IF logs = <<>> THEN <<>>
    ELSE (IF Head(logs).issueId \notin DOMAIN SnapshotIds THEN <<>>
          ELSE IF SnapshotIds[Head(logs).issueId] # key THEN <<>>
          ELSE Head(logs).changeHistories)
         \o LogsHistories(Tail(logs), key)

\* The histories of the issue the bulk endpoint has delivered, page after
\* page.
RECURSIVE PostsHistories(_, _)
PostsHistories(posts, key) ==
    IF posts = <<>> THEN <<>>
    ELSE (IF Head(posts).kind # "ok" THEN <<>>
          ELSE LogsHistories(Head(posts).issueChangeLogs, key))
         \o PostsHistories(Tail(posts), key)

\* The history at h has the greatest timestamp of those at hits.
Greatest(histories, hits, h) ==
    \A j \in hits \ {h} :
        parse_created_to_date_str(histories[j].created).ts
            < parse_created_to_date_str(histories[h].created).ts

\* since is the date of the transition with the greatest timestamp among
\* the histories, if one has the greatest.
IsLatestOf(since, histories) ==
    \A h \in TransitionsTo(histories, status_lower) :
        Greatest(histories, TransitionsTo(histories, status_lower), h)
            => since = parse_created_to_date_str(histories[h].created).date_str

\* C21: the status_since the resolver reports for an issue is the date of
\* the most recent transition to the target status: among all histories of
\* the issue with a change of the status to the target (trimmed, whatever
\* the case), over all pages of the bulk answer, or of the per-issue
\* changelog when the bulk answer holds none, it is the date of the one
\* with the greatest timestamp, however the histories are spread over logs
\* and pages.
C21_StatusSinceIsLatestTransition ==
    ResolverReturned =>
        \A n \in DOMAIN request.response.issues :
            IsLatestOf(request.response.issues[n].status_since,
                       IF BulkYields(request.response.issues[n].key)
                       THEN PostsHistories(traffic.posts, request.response.issues[n].key)
                       ELSE Delivered(traffic.gets, request.response.issues[n].key))

\* ------------------------------------------------------------------------
\* Properties of the fan-in
\* ------------------------------------------------------------------------

\* Every future has completed or failed.
AllSettled == \A i \in DOMAIN tasks : tasks[i].state \in {"done", "failed"}

\* The step is one of a pool thread: the state, the pages or the log of a
\* future changes.
WorkerStep ==
    \E i \in DOMAIN tasks \cap DOMAIN tasks' :
        \/ tasks'[i].state # tasks[i].state
        \/ tasks'[i].all_issues # tasks[i].all_issues
        \/ tasks'[i].log # tasks[i].log

\* C22: the merged list is sorted and returned only after every submitted
\* future has completed or failed: the result is never returned, and the
\* sort never starts, while a fetch is pending or running; and only the
\* coordinator changes the merged list: no step of a pool thread does, and
\* every step that does is the coordinator's, at its collect loop.
C22_SortOnlyAfterFanIn ==
    /\ [](Returned => AllSettled)
    /\ [][(pc = "collect" /\ pc' = "returned") => AllSettled]_vars
    /\ [][WorkerStep => all_issues' = all_issues]_vars
    /\ [][all_issues' # all_issues => pc = "collect"]_vars

\* The result is returned after three futures, of which one has failed
\* and two have completed with issues.
C22_Witness ==
    /\ pc = "returned"
    /\ Len(tasks) = 3
    /\ \E i \in DOMAIN tasks : tasks[i].state = "failed"
    /\ Cardinality({ i \in DOMAIN tasks :
                        tasks[i].state = "done" /\ tasks[i].all_issues # <<>> }) = 2

\* The results of the first n futures that completed, in the order of
\* their chunks.
RECURSIVE ResultsInOrder(_)
ResultsInOrder(n) ==
    IF n = 0 THEN <<>>
    ELSE ResultsInOrder(n - 1)
         \o (IF tasks[n].state = "done" THEN tasks[n].all_issues ELSE <<>>)

\* C23: the order in which the futures complete does not show in the
\* output: for a fixed backend and fixed results of the partitions, every
\* interleaving and every order of completion makes
\* fetch_all_issues_parallel return the same list, element for element:
\* the results of the partitions in the order of their chunks, sorted.
C23_CompletionOrderIsIrrelevant ==
    Returned => issues = SortByCreated(ResultsInOrder(Len(tasks)))

\* All futures are collected, the last before the one before it, both
\* with issues: the merged list is in the order of completion.
C23_Witness ==
    /\ pc = "collect"
    /\ Len(tasks) >= 2
    /\ \A i \in DOMAIN tasks : tasks[i].collected
    /\ tasks[Len(tasks)].state = "done" /\ tasks[Len(tasks)].all_issues # <<>>
    /\ tasks[Len(tasks) - 1].state = "done" /\ tasks[Len(tasks) - 1].all_issues # <<>>
    /\ all_issues = tasks[Len(tasks)].all_issues \o tasks[Len(tasks) - 1].all_issues

\* ------------------------------------------------------------------------
\* Properties of the caches under requests served by several threads
\* ------------------------------------------------------------------------

\* Thread t returns a result it found in a cache.
ReturnsMemoized(t) ==
    /\ request[t].state = "loaded"
    /\ request'[t].state = "returned"
    /\ request'[t].memoized

\* C24: with requests served by several threads while DATA_FILE is
\* written, no request returns a memoized result, and no cache keeps one
\* after load_issues has replaced the snapshot, that was computed from
\* another snapshot than the one _issues_cache holds.
C24_NoStaleResultAcrossThreads ==
    /\ [](issues_cache # PyNone =>
            \A c \in CachedCalls :
                CacheHit(c[1], c[2]) =>
                    Cached(c[1], c[2]) = Computed(c[1], c[2], issues_cache.items, now))
    /\ [][\A t \in Threads :
            ReturnsMemoized(t) =>
                request'[t].response
                    = Computed(request[t].route, request[t].arg, issues_cache.items, now)]_vars

\* The requests for the changelog of the issue.
GetsOf(key) == { g \in DOMAIN traffic.gets : traffic.gets[g].key = key }

\* The handler is in _fetch_changelog_status_since.
InResolver == request.state \in {"bulk", "fallback"}

\* The requests made so far.
Requests == Len(traffic.posts) + Len(traffic.gets)

\* C25: _fetch_changelog_status_since ends after a bounded number of
\* requests, whatever the server answers: every step it takes is one
\* request, at most 100 of them go to the bulk endpoint and at most 50 ask
\* for the changelog of each issue the bulk phase left without a date, none
\* asks for an issue the bulk phase found a date for, and there is none at
\* all without an issue waiting or without URL, e-mail or token.
C25_ResolverIsBounded ==
    /\ [](/\ Len(traffic.posts) <= BulkRounds
          /\ \A g \in DOMAIN traffic.gets :
                /\ Cardinality(GetsOf(traffic.gets[g].key)) <= FallbackRounds
                /\ ~BulkYields(traffic.gets[g].key)
          /\ (request.route = "waiting-for-release" /\ issues_cache # PyNone
                /\ (~configured
                      \/ get_issues_waiting_for_release(issues_cache.items) = <<>>))
              => traffic = NoTraffic)
    /\ [][InResolver => Requests' = Requests + 1]_vars

\* The handler has returned after 100 requests to a bulk endpoint that
\* never ends.
C25_Witness ==
    /\ request.route = "waiting-for-release"
    /\ request.state = "returned"
    /\ Len(traffic.posts) = BulkRounds
    /\ traffic.posts[BulkRounds].kind = "ok"
    /\ traffic.posts[BulkRounds].nextPageToken # NoToken

\* The futures of the partitions whose search never runs out of pages.
Unending == unending \cap DOMAIN tasks

\* The page loop of future i has followed MaxPages pages and goes on.
StillPaging(i) == tasks[i].state = "running" /\ Len(tasks[i].log) = MaxPages

\* C26: fetch_all_issues_parallel returns once every partition's pages have
\* ended, with a page without issues, a page without nextPageToken or a
\* failure; a partition whose every page holds issues and a token never
\* finishes, and as long as it goes on the coordinator does not return.
C26_ReturnsUnlessAPartitionNeverEnds ==
    /\ (pc = "collect") ~> (Returned \/ \E i \in Unending : StillPaging(i))
    /\ [](\A i \in Unending : /\ tasks[i].state # "done"
                              /\ Returned => tasks[i].state = "failed")

\* The coordinator waits for the one partition that never ends: every
\* other future is collected.
C26_Witness ==
    /\ pc = "collect"
    /\ Len(tasks) > 1
    /\ \E i \in Unending :
         /\ StillPaging(i)
         /\ \A j \in DOMAIN tasks \ {i} : tasks[j].collected

\* The issues of the call that find_date_fields finds a date missing for.
LackingADate ==
    { k \in DOMAIN call.issues :
        \/ find_date_fields(call.issues[k])[1] = PyNone
        \/ find_date_fields(call.issues[k])[2] = PyNone }

\* C27: find_date_fields returns no start date without an end date; of the
\* three missing-dates buckets of analyze_data_quality no two share an
\* issue (their sizes add up to the number of issues that lack a date), and
\* the bucket of the issues with a start but no end date is empty.
C27_NoStartWithoutEnd ==
    /\ (call.fn = "find_date_fields" /\ call.state = "returned")
        => (call.result[1] # PyNone => call.result[2] # PyNone)
    /\ (call.fn = "analyze_data_quality" /\ call.state = "returned")
        => /\ call.result.issues_without_end_date.count = 0
           /\ call.result.issues_without_both_dates.count
                + call.result.issues_without_start_date.count
                + call.result.issues_without_end_date.count
              = Cardinality(LackingADate)

\* analyze_data_quality has returned for an issue without dates and an
\* issue with an end date only.
C27_Witness ==
    /\ call.fn = "analyze_data_quality"
    /\ call.state = "returned"
    /\ call.result.issues_without_both_dates.count = 1
    /\ call.result.issues_without_start_date.count = 1

====
